---- MODULE Spec2Model ----
(***************************************************************************)
(* Model of the caching core of src/app.py: PlatformCacheManager (the      *)
(* namespaced TTL cache), DatabaseManager.connect (target-change           *)
(* invalidation) and DatabaseManager._build_where_clause (the filter       *)
(* compiler).                                                              *)
(*                                                                         *)
(* Strings that the code inspects character by character (cache keys,      *)
(* regular expressions, database names) are sequences of one-symbol        *)
(* strings; a Python dict is a sequence of entries in insertion order.     *)
(***************************************************************************)
EXTENDS Integers, Sequences, FiniteSets, TLC

VARIABLES caches, stats, now, last, steps,
          connection, config_db, current_db, req,
          filters, where_clause, params, compiled, data_query,
          thread, lock,
          sweep, shutdown,
          heap, storage_file, stored, loaded,
          key_request, key_result,
          race

cacheVars == <<caches, stats, now, last, steps>>
dbVars == <<connection, config_db, current_db, req>>
filterVars == <<filters, where_clause, params, compiled, data_query>>
threadVars == <<thread, lock>>
sweepVars == <<sweep, shutdown>>
storageVars == <<heap, storage_file, stored, loaded>>
keyVars == <<key_request, key_result>>
raceVars == <<race>>
vars == <<caches, stats, now, last, steps, connection, config_db, current_db, req,
          filters, where_clause, params, compiled, data_query,
          thread, lock, sweep, shutdown,
          heap, storage_file, stored, loaded, key_request, key_result, race>>

----------------------------------------------------------------------------
(* Bounds of the model *)

\* scaled capacity of the smallest namespace (the code: 100 .. 1000 entries)
Cap == 1
\* scaled TTL of the shortest-lived namespace, in clock ticks (the code: 60 s .. 600 s)
Ttl == 1
\* the clock runs from 0 to MaxTime
MaxTime == 2
\* number of cache operations in one run
MaxSteps == 3
\* number of requests in one run of the database manager
MaxRequests == 4
\* the clock of a run of the database manager, and of a run of the threads,
\* runs from 0 to MaxRequestTime
MaxRequestTime == 1
\* number of calls the threads make in one run
MaxThreadCalls == 3

----------------------------------------------------------------------------
(* PlatformCacheManager.__init__ *)

None == "None"

\* the namespaces of self._caches that the modelled callers use
CacheNames == {"database_queries", "api_responses", "table_metadata", "configuration"}

ttl_settings(ns) ==
    CASE ns = "api_responses" -> Ttl
      [] ns = "database_queries" -> Ttl + 1
      [] OTHER -> Ttl + 2

max_sizes(ns) ==
    CASE ns = "database_queries" -> Cap + 1
      [] OTHER -> Cap

StatNames == {"hits", "misses", "evictions", "total_requests"}

EmptyCaches == [ns \in CacheNames |-> <<>>]
ZeroStats == [f \in StatNames |-> [ns \in CacheNames |-> 0]]

----------------------------------------------------------------------------
(* A Python dict of cache entries: entries in insertion order *)

Entry(k, v, t) == [key |-> k, data |-> v, timestamp |-> t]

KeysOf(d) == {d[i].key : i \in DOMAIN d}
HasKey(d, k) == \E i \in DOMAIN d : d[i].key = k
IndexOf(d, k) == CHOOSE i \in DOMAIN d : d[i].key = k
DictGet(d, k) == d[IndexOf(d, k)]
DictDel(d, k) == SelectSeq(d, LAMBDA e : e.key # k)
\* d[k] = e: an existing key keeps its place, a new key goes last
DictPutKeepOld(d, e) ==
    IF HasKey(d, e.key) THEN d ELSE Append(d, e)
DictPut(d, e) ==
    IF HasKey(d, e.key) THEN [d EXCEPT ![IndexOf(d, e.key)] = e] ELSE Append(d, e)

\* min(keys, key=timestamp): the first entry, in iteration order, of least timestamp
NewestKey(d) ==
    d[CHOOSE i \in DOMAIN d :
        /\ \A j \in DOMAIN d : d[i].timestamp >= d[j].timestamp
        /\ \A j \in 1..(i - 1) : d[j].timestamp < d[i].timestamp].key
OldestKey(d) ==
    d[CHOOSE i \in DOMAIN d :
        /\ \A j \in DOMAIN d : d[i].timestamp <= d[j].timestamp
        /\ \A j \in 1..(i - 1) : d[j].timestamp > d[i].timestamp].key

\* current_time - entry['timestamp'] < self._ttl_settings[cache_name]
WithinTTLInclusive(t, ts, ns) == t - ts <= ttl_settings(ns)
WithinTTL(t, ts, ns) == t - ts < ttl_settings(ns)

\* len(self._caches[cache_name]) >= self._max_sizes[cache_name]
AtCapacityOffByOne(d, ns) == Len(d) > max_sizes(ns)
AtCapacity(d, ns) == Len(d) >= max_sizes(ns)

\* a counter that counts down
BumpDown(s, f, ns) == [s EXCEPT ![f][ns] = @ - 1]
\* self._stats[f][cache_name] += 1
Bump(s, f, ns) == [s EXCEPT ![f][ns] = @ + 1]

----------------------------------------------------------------------------
(* Regular expressions: re.compile and pattern_re.match, for the patterns  *)
(* built from literals, '.', '.*' and a leading '^'                         *)

Lit(c) == [t |-> "lit", c |-> c]
AnyChar == [t |-> "dot", c |-> ""]
AnyStar == [t |-> "dotstar", c |-> ""]

RECURSIVE ReParse(_)
ReParse(p) ==
    IF p = <<>> THEN <<>>
    ELSE IF Head(p) = "." /\ Len(p) >= 2 /\ p[2] = "*"
         THEN <<AnyStar>> \o ReParse(SubSeq(p, 3, Len(p)))
    ELSE IF Head(p) = "." THEN <<AnyChar>> \o ReParse(Tail(p))
    ELSE <<Lit(Head(p))>> \o ReParse(Tail(p))

\* a pattern that re.compile rejects: an unbalanced parenthesis or a dangling '*'
ReInvalid(p) ==
    \/ \E i \in DOMAIN p : p[i] \in {"(", ")", "["}
    \/ (p # <<>> /\ Head(p) = "*")

\* re.compile(pattern): the items of the pattern, a leading '^' dropped
\* (match is anchored at the start of the key anyway)
ReCompile(p) ==
    IF ReInvalid(p) THEN [ok |-> FALSE, items |-> <<>>]
    ELSE [ok |-> TRUE,
          items |-> ReParse(IF p # <<>> /\ Head(p) = "^" THEN Tail(p) ELSE p)]

\* the items match the whole of s
RECURSIVE ReFull(_, _)
ReFull(items, s) ==
    IF items = <<>> THEN s = <<>>
    ELSE IF Head(items).t = "dotstar"
         THEN \E i \in 0..Len(s) : ReFull(Tail(items), SubSeq(s, i + 1, Len(s)))
    ELSE /\ s # <<>>
         /\ (Head(items).t = "dot" \/ Head(items).c = Head(s))
         /\ ReFull(Tail(items), Tail(s))

\* pattern_re.match(key): the items match a prefix of the key
RECURSIVE ReMatch(_, _)
ReMatch(items, s) ==
    IF items = <<>> THEN TRUE
    ELSE IF Head(items).t = "dotstar"
         THEN \E i \in 0..Len(s) : ReMatch(Tail(items), SubSeq(s, i + 1, Len(s)))
    ELSE /\ s # <<>>
         /\ (Head(items).t = "dot" \/ Head(items).c = Head(s))
         /\ ReMatch(Tail(items), Tail(s))

----------------------------------------------------------------------------
(* PlatformCacheManager: each method as a function of the manager's state  *)
(* (c: self._caches, s: self._stats) and of time.time() (t)                *)

\* a get that counts no miss when it finds its entry expired
CacheGetExpiredUncounted(c, s, ns, key, t) ==
    IF ns \notin CacheNames
    THEN [caches |-> c, stats |-> s, ret |-> None, hit |-> FALSE, expired |-> FALSE]
    ELSE LET s1 == Bump(s, "total_requests", ns) IN
         IF HasKey(c[ns], key)
         THEN LET entry == DictGet(c[ns], key) IN
              IF WithinTTL(t, entry.timestamp, ns)
              THEN [caches |-> c, stats |-> Bump(s1, "hits", ns),
                    ret |-> entry.data, hit |-> TRUE, expired |-> FALSE]
              ELSE [caches |-> [c EXCEPT ![ns] = DictDel(@, key)],
                    stats |-> Bump(s1, "evictions", ns),
                    ret |-> None, hit |-> FALSE, expired |-> TRUE]
         ELSE [caches |-> c, stats |-> Bump(s1, "misses", ns),
               ret |-> None, hit |-> FALSE, expired |-> FALSE]
\* get(cache_name, key): the returned value, and whether it was a hit
CacheGet(c, s, ns, key, t) ==
    IF ns \notin CacheNames
    THEN [caches |-> c, stats |-> s, ret |-> None, hit |-> FALSE, expired |-> FALSE]
    ELSE LET s1 == Bump(s, "total_requests", ns) IN
         IF HasKey(c[ns], key)
         THEN LET entry == DictGet(c[ns], key) IN
              IF WithinTTL(t, entry.timestamp, ns)
              THEN [caches |-> c, stats |-> Bump(s1, "hits", ns),
                    ret |-> entry.data, hit |-> TRUE, expired |-> FALSE]
              ELSE [caches |-> [c EXCEPT ![ns] = DictDel(@, key)],
                    stats |-> Bump(Bump(s1, "evictions", ns), "misses", ns),
                    ret |-> None, hit |-> FALSE, expired |-> TRUE]
         ELSE [caches |-> c, stats |-> Bump(s1, "misses", ns),
               ret |-> None, hit |-> FALSE, expired |-> FALSE]

\* a set that stamps its entry with time 0 and not with the time of the call
CacheSetUnstamped(c, s, ns, key, value, t) ==
    IF ns \notin CacheNames
    THEN [caches |-> c, stats |-> s, ret |-> FALSE, evicted |-> <<>>]
    ELSE IF AtCapacity(c[ns], ns)
         THEN LET oldest_key == OldestKey(c[ns]) IN
              [caches |-> [c EXCEPT ![ns] =
                              DictPut(DictDel(@, oldest_key), Entry(key, value, 0))],
               stats |-> Bump(s, "evictions", ns),
               ret |-> TRUE, evicted |-> oldest_key]
         ELSE [caches |-> [c EXCEPT ![ns] = DictPut(@, Entry(key, value, 0))],
               stats |-> s, ret |-> TRUE, evicted |-> <<>>]

\* set(cache_name, key, value): ttl_override is accepted and never read
CacheSet(c, s, ns, key, value, t) ==
    IF ns \notin CacheNames
    THEN [caches |-> c, stats |-> s, ret |-> FALSE, evicted |-> <<>>]
    ELSE IF AtCapacity(c[ns], ns)
         THEN LET oldest_key == OldestKey(c[ns]) IN
              [caches |-> [c EXCEPT ![ns] =
                              DictPut(DictDel(@, oldest_key), Entry(key, value, t))],
               stats |-> Bump(s, "evictions", ns),
               ret |-> TRUE, evicted |-> oldest_key]
         ELSE [caches |-> [c EXCEPT ![ns] = DictPut(@, Entry(key, value, t))],
               stats |-> s, ret |-> TRUE, evicted |-> <<>>]

\* delete(cache_name, key)
CacheDelete(c, ns, key) ==
    IF ns \notin CacheNames THEN [caches |-> c, ret |-> FALSE]
    ELSE IF HasKey(c[ns], key)
         THEN [caches |-> [c EXCEPT ![ns] = DictDel(@, key)], ret |-> TRUE]
         ELSE [caches |-> c, ret |-> FALSE]

\* clear(cache_name): one namespace, or all of them when cache_name is None
CacheClear(c, ns) ==
    IF ns # None
    THEN IF ns \in CacheNames THEN [c EXCEPT ![ns] = <<>>] ELSE c
    ELSE [n \in CacheNames |-> <<>>]

\* an invalidate_pattern that compiles its pattern before it looks at the name
InvalidatePatternCompileFirst(c, ns, pattern) ==
    LET pattern_re == ReCompile(pattern) IN
    IF ~pattern_re.ok THEN [caches |-> c, ret |-> 0, raised |-> TRUE]
    ELSE IF ns \notin CacheNames THEN [caches |-> c, ret |-> 0, raised |-> FALSE]
    ELSE LET keys_to_remove ==
                 {k \in KeysOf(c[ns]) : ReMatch(pattern_re.items, k)}
         IN [caches |-> [c EXCEPT ![ns] =
                            SelectSeq(@, LAMBDA e : e.key \notin keys_to_remove)],
             ret |-> Cardinality(keys_to_remove), raised |-> FALSE]

\* invalidate_pattern(cache_name, pattern): raised is re.compile's error
InvalidatePatternFull(c, ns, pattern) ==
    IF ns \notin CacheNames THEN [caches |-> c, ret |-> 0, raised |-> FALSE]
    ELSE LET pattern_re == ReCompile(pattern) IN
         IF ~pattern_re.ok THEN [caches |-> c, ret |-> 0, raised |-> TRUE]
         ELSE LET keys_to_remove ==
                      {k \in KeysOf(c[ns]) : ReFull(pattern_re.items, k)}
              IN [caches |-> [c EXCEPT ![ns] =
                                 SelectSeq(@, LAMBDA e : e.key \notin keys_to_remove)],
                  ret |-> Cardinality(keys_to_remove), raised |-> FALSE]
InvalidatePattern(c, ns, pattern) ==
    IF ns \notin CacheNames THEN [caches |-> c, ret |-> 0, raised |-> FALSE]
    ELSE LET pattern_re == ReCompile(pattern) IN
         IF ~pattern_re.ok THEN [caches |-> c, ret |-> 0, raised |-> TRUE]
         ELSE LET keys_to_remove ==
                      {k \in KeysOf(c[ns]) : ReMatch(pattern_re.items, k)}
              IN [caches |-> [c EXCEPT ![ns] =
                                 SelectSeq(@, LAMBDA e : e.key \notin keys_to_remove)],
                  ret |-> Cardinality(keys_to_remove), raised |-> FALSE]

\* get_stats()
GetStats(c, s) ==
    [ns \in CacheNames |->
        [total_requests |-> s.total_requests[ns],
         hits |-> s.hits[ns],
         misses |-> s.misses[ns],
         evictions |-> s.evictions[ns],
         current_size |-> Len(c[ns]),
         max_size |-> max_sizes(ns)]]

\* cleanup_expired()
ExpiredKeysPastTTL(d, ns, t) ==
    {d[i].key : i \in {j \in DOMAIN d : t - d[j].timestamp > ttl_settings(ns)}}
ExpiredKeys(d, ns, t) ==
    {d[i].key : i \in {j \in DOMAIN d : t - d[j].timestamp >= ttl_settings(ns)}}
CleanupExpired(c, s, t) ==
    [caches |-> [ns \in CacheNames |->
                    SelectSeq(c[ns], LAMBDA e : e.key \notin ExpiredKeys(c[ns], ns, t))],
     stats |-> [s EXCEPT !.evictions =
                    [ns \in CacheNames |-> @[ns] + Cardinality(ExpiredKeys(c[ns], ns, t))]],
     ret |-> LET RECURSIVE Sum(_)
                 Sum(S) == IF S = {} THEN 0
                           ELSE LET n == CHOOSE n \in S : TRUE
                                IN Cardinality(ExpiredKeys(c[n], n, t)) + Sum(S \ {n})
             IN Sum(CacheNames)]

----------------------------------------------------------------------------
(* Cache keys as the callers build them, and the patterns given to         *)
(* invalidate_pattern                                                      *)

DbA == <<"a">>
DbAB == <<"a", "b">>
DbB == <<"b">>
DbNames == {DbA, DbAB, DbB}
\* a database whose name is not a regular expression
DbParen == <<"a", "(">>

\* get_tables: f"tables:{self.config['database']}"
KeyTables(db) == <<"tables", ":">> \o db
\* api_tables: f"api_tables:{db_manager.config.get('database', 'default')}"
KeyApiTables(db) == <<"api_tables", ":">> \o db
\* api_table_info: f"table_info:{table_name}:{db_manager.config.get('database', 'default')}"
KeyTableInfo(tbl, db) == <<"table_info", ":">> \o tbl \o <<":">> \o db

\* connect: f".*:{connect_config.get('database', 'default')}"
ConnectPattern(db) == <<".", "*", ":">> \o db

Values == {"v1", None}
CacheKeys == {KeyTables(db) : db \in DbNames}
Patterns == {ConnectPattern(DbA), <<"^", "tables", ":", "b", ".", "*">>, <<"(">>}
\* the calls of a run: every key and pattern on database_queries, one key and
\* one pattern on api_responses and on a name that is no namespace
KeyCalls ==
    ({"database_queries"} \X CacheKeys) \cup ({"api_responses", "nope"} \X {KeyTables(DbA)})
PatternCalls ==
    ({"database_queries"} \X Patterns) \cup ({"api_responses", "nope"} \X {ConnectPattern(DbA)})
    \cup {<<"nope", <<"(">>>>}
ClearCalls == {"database_queries", "nope", None}

----------------------------------------------------------------------------
(* The cache under a sequence of calls: every call is one step *)

Op(op, ns, key) ==
    [op |-> op, ns |-> ns, key |-> key, val |-> None, at |-> now, ret |-> None,
     n |-> 0, hit |-> FALSE, expired |-> FALSE, evicted |-> <<>>,
     raised |-> FALSE, after_set |-> FALSE]

CacheInit ==
    /\ caches = EmptyCaches
    /\ stats = ZeroStats
    /\ now = 0
    /\ last = Op("init", None, <<>>)
    /\ steps = 0

Step == steps < MaxSteps /\ steps' = steps + 1
\* a call on the cache manager leaves the database manager alone
CacheCall == Step /\ UNCHANGED <<dbVars, filterVars, threadVars, sweepVars, storageVars, keyVars, raceVars>>

\* time.time() moves on between calls; last is the last call and its outcome
Tick ==
    /\ now < MaxTime
    /\ now' = now + 1
    /\ UNCHANGED <<caches, stats, last, steps>>
    /\ UNCHANGED <<dbVars, filterVars, threadVars, sweepVars, storageVars, keyVars, raceVars>>

Get(ns, key) ==
    /\ CacheCall
    /\ LET r == CacheGet(caches, stats, ns, key, now) IN
       /\ caches' = r.caches
       /\ stats' = r.stats
       /\ last' = [Op("get", ns, key) EXCEPT
                      !.ret = r.ret, !.hit = r.hit, !.expired = r.expired,
                      !.after_set = (last.op = "set" /\ last.ns = ns /\ last.key = key)]
    /\ UNCHANGED now

Set(ns, key, value) ==
    /\ CacheCall
    /\ LET r == CacheSet(caches, stats, ns, key, value, now) IN
       /\ caches' = r.caches
       /\ stats' = r.stats
       /\ last' = [Op("set", ns, key) EXCEPT
                      !.val = value,
                      !.ret = IF r.ret THEN "True" ELSE "False",
                      !.evicted = r.evicted]
    /\ UNCHANGED now

Delete(ns, key) ==
    /\ CacheCall
    /\ LET r == CacheDelete(caches, ns, key) IN
       /\ caches' = r.caches
       /\ last' = [Op("delete", ns, key) EXCEPT
                      !.ret = IF r.ret THEN "True" ELSE "False"]
    /\ UNCHANGED <<stats, now>>

Clear(ns) ==
    /\ CacheCall
    /\ caches' = CacheClear(caches, ns)
    /\ last' = Op("clear", ns, <<>>)
    /\ UNCHANGED <<stats, now>>

Invalidate(ns, pattern) ==
    /\ CacheCall
    /\ LET r == InvalidatePattern(caches, ns, pattern) IN
       /\ caches' = r.caches
       /\ last' = [Op("invalidate_pattern", ns, pattern) EXCEPT
                      !.n = r.ret, !.raised = r.raised]
    /\ UNCHANGED <<stats, now>>

Cleanup ==
    /\ CacheCall
    /\ LET r == CleanupExpired(caches, stats, now) IN
       /\ caches' = r.caches
       /\ stats' = r.stats
       /\ last' = [Op("cleanup_expired", None, <<>>) EXCEPT !.n = r.ret]
    /\ UNCHANGED now

CacheNext ==
    \/ Tick
    \/ \E call \in KeyCalls : Get(call[1], call[2])
    \/ \E call \in KeyCalls, value \in Values : Set(call[1], call[2], value)
    \/ \E call \in KeyCalls : Delete(call[1], call[2])
    \/ \E ns \in ClearCalls : Clear(ns)
    \/ \E call \in PatternCalls : Invalidate(call[1], call[2])
    \/ Cleanup

----------------------------------------------------------------------------
(* DatabaseManager: the connection, the configuration and the cached       *)
(* queries.  st is the state a method works on: the cache manager (caches, *)
(* stats), self.connection (conn), self.config['database'] (cfg), the      *)
(* clock (t), and log, the connect attempts made so far in the request.    *)

NoDb == <<>>
\* self.connection: open is "is not None", db the database it was opened on,
\* alive whether a query on it succeeds
NoConnection == [open |-> FALSE, db |-> NoDb, alive |-> FALSE]

InvalidatedNames == <<"database_queries", "api_responses", "table_metadata">>

\* what a query over a connection to db returns
DataFrom(db) ==
    CASE db = DbA -> "rows_a"
      [] db = DbAB -> "rows_ab"
      [] db = DbB -> "rows_b"
      [] db = DbParen -> "rows_paren"
      [] OTHER -> "rows"

Attempt(target, prev, ok, inv) ==
    [target |-> target, prev |-> prev, ok |-> ok, invalidated |-> inv]

\* `return False, str(e)`, which the callers report as "connection failed"
ConnectionFailed == "connection failed"

\* a connect that invalidates before it knows whether the connection is there
DbConnectEager(st, target, reach) ==
    LET pattern == ConnectPattern(target)
        r1 == InvalidatePattern(st.caches, InvalidatedNames[1], pattern)
        r2 == InvalidatePattern(r1.caches, InvalidatedNames[2], pattern)
        r3 == InvalidatePattern(r2.caches, InvalidatedNames[3], pattern)
    IN [st EXCEPT !.caches = r3.caches,
                  !.conn = IF reach THEN [open |-> TRUE, db |-> target, alive |-> TRUE]
                           ELSE [@ EXCEPT !.alive = FALSE],
                  !.cfg = IF reach THEN target ELSE @,
                  !.ok = reach,
                  !.error = IF reach THEN "none" ELSE ConnectionFailed,
                  !.log = Append(@, Attempt(target, st.conn.db, reach, 1))]
\* connect(config): reach is whether psycopg2.connect succeeds; raised is
\* whether invalidate_pattern raised, and error is what the result (False,
\* str(e)) of the one except clause is to the callers
DbConnect(st, target, reach) ==
    LET prev == st.conn.db IN
    IF ~reach
    THEN \* the existing connection was closed before the attempt
         [st EXCEPT !.conn = [@ EXCEPT !.alive = FALSE],
                    !.ok = FALSE,
                    !.error = ConnectionFailed,
                    !.log = Append(@, Attempt(target, prev, FALSE, 0))]
    ELSE LET pattern == ConnectPattern(target)
             r1 == InvalidatePattern(st.caches, InvalidatedNames[1], pattern)
             r2 == InvalidatePattern(r1.caches, InvalidatedNames[2], pattern)
             r3 == InvalidatePattern(r2.caches, InvalidatedNames[3], pattern)
             connected == [st EXCEPT !.conn = [open |-> TRUE, db |-> target, alive |-> TRUE],
                                     !.cfg = target]
         IN IF r1.raised
            THEN [connected EXCEPT !.ok = FALSE,
                                   !.raised = TRUE,
                                   !.error = ConnectionFailed,
                                   !.log = Append(@, Attempt(target, prev, FALSE, 0))]
            ELSE [connected EXCEPT !.caches = r3.caches,
                                   !.ok = TRUE,
                                   !.error = "none",
                                   !.log = Append(@, Attempt(target, prev, TRUE, 1))]

\* _ensure_connection_health(): a broken connection is reopened with self.config,
\* and the result of that connect is not looked at
EnsureConnectionHealth(st, reach) ==
    IF ~st.conn.open THEN [st EXCEPT !.ok = FALSE]
    ELSE IF st.conn.alive THEN [st EXCEPT !.ok = TRUE]
    ELSE [DbConnect(st, st.cfg, reach) EXCEPT !.ok = TRUE]

StGet(st, ns, key) ==
    LET r == CacheGet(st.caches, st.stats, ns, key, st.t)
    IN [st EXCEPT !.caches = r.caches, !.stats = r.stats, !.ret = r.ret]
StSet(st, ns, key, value) ==
    LET r == CacheSet(st.caches, st.stats, ns, key, value, st.t)
    IN [st EXCEPT !.caches = r.caches, !.stats = r.stats]

\* get_tables(): reach[1] and reach[2] are the outcomes of the first and of the
\* second reconnect it may try
DbGetTables(st, reach) ==
    IF ~st.conn.open THEN [st EXCEPT !.ok = FALSE]
    ELSE LET cache_key == KeyTables(st.cfg)
             g == StGet(st, "database_queries", cache_key)
         IN IF g.ret # None THEN [g EXCEPT !.ok = TRUE]
            ELSE LET h == EnsureConnectionHealth(g, reach[1]) IN
                 IF ~h.ok THEN h
                 ELSE IF h.conn.alive
                      THEN LET tables == DataFrom(h.conn.db) IN
                           [StSet(h, "database_queries", cache_key, tables)
                               EXCEPT !.ok = TRUE, !.ret = tables]
                      ELSE \* the query raised: recover the connection and retry
                           LET h2 == EnsureConnectionHealth(h, reach[2]) IN
                           IF h2.ok /\ h2.conn.alive
                           THEN [h2 EXCEPT !.ok = TRUE, !.ret = DataFrom(h2.conn.db)]
                           ELSE [h2 EXCEPT !.ok = FALSE]

\* get_table_info(table_name)
DbGetTableInfo(st, reach) ==
    IF ~st.conn.open THEN [st EXCEPT !.ok = FALSE]
    ELSE LET h == EnsureConnectionHealth(st, reach[1]) IN
         IF ~h.ok THEN h
         ELSE IF h.conn.alive
              THEN [h EXCEPT !.ok = TRUE, !.ret = DataFrom(h.conn.db)]
              ELSE LET h2 == EnsureConnectionHealth(h, reach[2]) IN
                   IF h2.ok /\ h2.conn.alive
                   THEN [h2 EXCEPT !.ok = TRUE, !.ret = DataFrom(h2.conn.db)]
                   ELSE [h2 EXCEPT !.ok = FALSE]

----------------------------------------------------------------------------
(* The requests that connect, and those that fill the cache *)

TableNames == {<<"a">>}
Reaches == {<<TRUE, TRUE>>, <<FALSE, TRUE>>, <<FALSE, FALSE>>}

\* a request to the web application; it compiles no filter and runs alone
Request ==
    /\ steps < MaxRequests
    /\ steps' = steps + 1
    /\ UNCHANGED <<filterVars, threadVars, sweepVars, storageVars, keyVars, raceVars>>

Req(op, target) ==
    [op |-> op, target |-> target, prev |-> connection.db, ok |-> FALSE, log |-> <<>>,
     raised |-> FALSE, error |-> "none"]

DbInit ==
    /\ connection = NoConnection
    /\ config_db = NoDb
    /\ current_db = NoDb
    /\ req = [op |-> "init", target |-> NoDb, prev |-> NoDb, ok |-> FALSE, log |-> <<>>,
              raised |-> FALSE, error |-> "none"]

\* the process has been started again: the cache is empty, there is no
\* connection, self.config['database'] is DB_NAME of the environment, and
\* current_database_id is what stored_databases.json holds from the run before
DbRestarted ==
    /\ connection = NoConnection
    /\ config_db \in {NoDb, DbA}
    /\ current_db \in {NoDb, DbA, DbB}
    /\ req = [op |-> "init", target |-> NoDb, prev |-> NoDb, ok |-> FALSE, log |-> <<>>,
              raised |-> FALSE, error |-> "none"]

St ==
    [caches |-> caches, stats |-> stats, conn |-> connection, cfg |-> config_db,
     t |-> now, ok |-> FALSE, ret |-> None, log |-> <<>>,
     raised |-> FALSE, error |-> "none"]

\* the request ends in state st
Commit(st, op, target, ok) ==
    /\ caches' = st.caches
    /\ stats' = st.stats
    /\ connection' = st.conn
    /\ config_db' = st.cfg
    /\ req' = [Req(op, target) EXCEPT !.ok = ok, !.log = st.log,
                                      !.raised = st.raised, !.error = st.error]

\* api_databases_connect: connect, and on success remember the database
ApiDatabasesConnect(db, reach) ==
    /\ Request
    /\ LET st == DbConnect(St, db, reach) IN
       /\ Commit(st, "connect", db, st.ok)
       /\ current_db' = IF st.ok THEN db ELSE current_db
    /\ UNCHANGED <<now, last>>

\* save_config: test_connection, then self.config = config, then connect
SaveConfig(db, reach) ==
    /\ Request
    /\ IF reach[1]
       THEN LET st == DbConnect([St EXCEPT !.cfg = db], db, reach[2])
            IN Commit(st, "save_config", db, st.ok)
       ELSE Commit(St, "save_config", db, FALSE)
    /\ UNCHANGED <<now, last, current_db>>

\* api_disconnect: db_manager.close() and no current database
ApiDisconnect ==
    /\ Request
    /\ Commit([St EXCEPT !.conn = NoConnection], "disconnect", NoDb, TRUE)
    /\ current_db' = NoDb
    /\ UNCHANGED <<now, last>>

\* api_tables
ApiTables(reach) ==
    /\ Request
    /\ LET cache_key == KeyApiTables(config_db)
           g == StGet(St, "api_responses", cache_key)
       IN IF g.ret # None THEN Commit(g, "api_tables", config_db, TRUE)
          ELSE LET c == IF g.conn.open THEN [g EXCEPT !.ok = TRUE]
                        ELSE IF current_db # NoDb THEN DbConnect(g, current_db, reach[1])
                        ELSE [g EXCEPT !.ok = FALSE]
               IN IF ~c.ok THEN Commit(c, "api_tables", config_db, FALSE)
                  ELSE LET r == DbGetTables(c, reach) IN
                       IF r.ok
                       THEN Commit(StSet(r, "api_responses", cache_key, r.ret),
                                   "api_tables", config_db, TRUE)
                       ELSE Commit(r, "api_tables", config_db, FALSE)
    /\ UNCHANGED <<now, last, current_db>>

\* api_table_info(table_name)
ApiTableInfo(tbl, reach) ==
    /\ Request
    /\ LET cache_key == KeyTableInfo(tbl, config_db)
           g == StGet(St, "table_metadata", cache_key)
       IN IF g.ret # None THEN Commit(g, "api_table_info", config_db, TRUE)
          ELSE LET r == DbGetTableInfo(g, reach) IN
               IF r.ok
               THEN Commit(StSet(r, "table_metadata", cache_key, r.ret),
                           "api_table_info", config_db, TRUE)
               ELSE Commit(r, "api_table_info", config_db, FALSE)
    /\ UNCHANGED <<now, last, current_db>>

\* the server drops the connection
ConnectionBreaks ==
    /\ connection.open /\ connection.alive
    /\ connection' = [connection EXCEPT !.alive = FALSE]
    /\ UNCHANGED <<caches, stats, now, last, steps, config_db, current_db, req>>
    /\ UNCHANGED <<filterVars, threadVars, sweepVars, storageVars, keyVars, raceVars>>

\* time.time() moves on between requests and between the statements of threads
RequestTick ==
    /\ now < MaxRequestTime
    /\ now' = now + 1
    /\ UNCHANGED <<caches, stats, last, steps>>
    /\ UNCHANGED <<dbVars, filterVars, threadVars, sweepVars, storageVars, keyVars, raceVars>>

DbNext ==
    \/ RequestTick
    \/ ConnectionBreaks
    \/ \E db \in DbNames \cup {DbParen}, reach \in BOOLEAN :
          ApiDatabasesConnect(db, reach)
    \/ \E db \in {DbA, DbB}, reach \in Reaches : SaveConfig(db, reach)
    \/ ApiDisconnect
    \/ \E reach \in Reaches : ApiTables(reach)
    \/ \E tbl \in TableNames, reach \in Reaches : ApiTableInfo(tbl, reach)

----------------------------------------------------------------------------
(* DatabaseManager._build_where_clause and _build_condition: the filter    *)
(* compiler.  A text is a sequence of symbols (a character or a word that  *)
(* the code never splits); a JSON object carries the set of its keys.      *)

\* the JSON values of a condition: a string, a list of strings, an object, null
StrValue(s) == [kind |-> "str", keys |-> <<>>, parts |-> <<s>>]
ListValue(items) == [kind |-> "list", keys |-> <<>>, parts |-> items]
DictValue(keys, items) == [kind |-> "dict", keys |-> keys, parts |-> items]
NullValue == [kind |-> "null", keys |-> <<>>, parts |-> <<>>]

\* a get that reads what stands under k also when the object has no key k
DictGetStored(d, k, default) == d[k]
\* d.get(k, default) of a JSON object d
DictGetOr(d, k, default) == IF k \in d.keys THEN d[k] ELSE default

\* a join that puts a space where the separator belongs
RECURSIVE JoinSpaces(_, _)
JoinSpaces(sep, texts) ==
    IF texts = <<>> THEN <<>>
    ELSE IF Len(texts) = 1 THEN texts[1]
    ELSE texts[1] \o <<" ">> \o JoinSpaces(sep, Tail(texts))

\* sep.join(texts)
RECURSIVE Join(_, _)
Join(sep, texts) ==
    IF texts = <<>> THEN <<>>
    ELSE IF Len(texts) = 1 THEN texts[1]
    ELSE texts[1] \o sep \o Join(sep, Tail(texts))

\* s.split(','): the pieces of s between commas
RECURSIVE Split(_, _)
Split(s, piece) ==
    IF s = <<>> THEN <<piece>>
    ELSE IF Head(s) = "," THEN <<piece>> \o Split(Tail(s), <<>>)
    ELSE Split(Tail(s), Append(piece, Head(s)))

\* v.strip()
RECURSIVE Strip(_)
Strip(s) ==
    IF s = <<>> THEN s
    ELSE IF Head(s) = " " THEN Strip(Tail(s))
    ELSE IF s[Len(s)] = " " THEN Strip(SubSeq(s, 1, Len(s) - 1))
    ELSE s

\* the pieces stripped, the empty ones kept
StrippedPiecesKeepEmpty(s) ==
    LET pieces == Split(s, <<>>)
    IN [i \in DOMAIN pieces |-> Strip(pieces[i])]
\* [v.strip() for v in value.split(',') if v.strip()]
StrippedPieces(s) ==
    LET pieces == Split(s, <<>>)
        stripped == [i \in DOMAIN pieces |-> Strip(pieces[i])]
    IN SelectSeq(stripped, LAMBDA x : x # <<>>)

\* sql.Identifier(field).as_string(...): the name in double quotes, every
\* double quote of the name doubled
RECURSIVE DoubleQuotes(_)
DoubleQuotes(s) ==
    IF s = <<>> THEN <<>>
    ELSE (IF Head(s) = "\"" THEN <<"\"", "\"">> ELSE <<Head(s)>>) \o DoubleQuotes(Tail(s))

\* a field name put into the text as it is
IdentifierRaw(field) == field
Identifier(field) == <<"\"">> \o DoubleQuotes(field) \o <<"\"">>

\* str(value), as an f-string formats the value
FormatValue(value) ==
    CASE value.kind = "str" -> value.parts[1]
      [] value.kind = "null" -> <<"None">>
      [] value.kind = "list" ->
            <<"[">> \o Join(<<", ">>, [i \in DOMAIN value.parts |->
                                        <<"'">> \o value.parts[i] \o <<"'">>]) \o <<"]">>
      [] OTHER ->
            <<"{">> \o Join(<<", ">>, [i \in DOMAIN value.parts |->
                                        <<"'", value.keys[i], "'", ": ", "'">>
                                            \o value.parts[i] \o <<"'">>]) \o <<"}">>

\* the values an in / not_in condition binds
InValues(value) ==
    CASE value.kind = "str" ->
            LET pieces == StrippedPieces(value.parts[1])
            IN [i \in DOMAIN pieces |-> StrValue(pieces[i])]
      [] value.kind = "list" -> [i \in DOMAIN value.parts |-> StrValue(value.parts[i])]
      [] OTHER -> <<value>>

\* ','.join(['%s'] * n)
Placeholders(n) == Join(<<",">>, [i \in 1..n |-> <<"%s">>])

HasKeyNamed(value, k) == \E i \in DOMAIN value.keys : value.keys[i] = k
Member(value, k) == StrValue(value.parts[CHOOSE i \in DOMAIN value.keys : value.keys[i] = k])

Built(text, ps) == [text |-> text, params |-> ps]
NotBuilt == Built(<<>>, <<>>)

\* a pattern that matches anywhere, whatever the operation
WrappedBothSides(before, value, after) ==
    StrValue(<<"%">> \o FormatValue(value) \o <<"%">>)
\* f'%{value}%', f'{value}%', f'%{value}'
Wrapped(before, value, after) == StrValue(before \o FormatValue(value) \o after)

\* _build_condition(field, operation, value)
BuildCondition(field, operation, value) ==
    LET field_sql == Identifier(field)
        wrapped(before, after) == Wrapped(before, value, after)
    IN CASE operation = "equals" -> Built(field_sql \o <<" = ", "%s">>, <<value>>)
         [] operation = "not_equals" -> Built(field_sql \o <<" != ", "%s">>, <<value>>)
         [] operation = "contains" ->
               Built(field_sql \o <<"::text ILIKE ", "%s">>, <<wrapped(<<"%">>, <<"%">>)>>)
         [] operation = "not_contains" ->
               Built(field_sql \o <<"::text NOT ILIKE ", "%s">>, <<wrapped(<<"%">>, <<"%">>)>>)
         [] operation = "starts_with" ->
               Built(field_sql \o <<"::text ILIKE ", "%s">>, <<wrapped(<<>>, <<"%">>)>>)
         [] operation = "ends_with" ->
               Built(field_sql \o <<"::text ILIKE ", "%s">>, <<wrapped(<<"%">>, <<>>)>>)
         [] operation = "greater_than" -> Built(field_sql \o <<" > ", "%s">>, <<value>>)
         [] operation = "less_than" -> Built(field_sql \o <<" < ", "%s">>, <<value>>)
         [] operation = "greater_equal" -> Built(field_sql \o <<" >= ", "%s">>, <<value>>)
         [] operation = "less_equal" -> Built(field_sql \o <<" <= ", "%s">>, <<value>>)
         [] operation = "is_null" -> Built(field_sql \o <<" IS NULL">>, <<>>)
         [] operation = "is_not_null" -> Built(field_sql \o <<" IS NOT NULL">>, <<>>)
         [] operation = "in" ->
               LET values == InValues(value) IN
               IF values # <<>>
               THEN Built(field_sql \o <<" IN (">> \o Placeholders(Len(values)) \o <<")">>,
                          values)
               ELSE NotBuilt
         [] operation = "not_in" ->
               LET values == InValues(value) IN
               IF values # <<>>
               THEN Built(field_sql \o <<" NOT IN (">> \o Placeholders(Len(values)) \o <<")">>,
                          values)
               ELSE NotBuilt
         [] operation = "between" ->
               IF value.kind = "dict" /\ HasKeyNamed(value, "min") /\ HasKeyNamed(value, "max")
               THEN Built(field_sql \o <<" BETWEEN ", "%s", " AND ", "%s">>,
                          <<Member(value, "min"), Member(value, "max")>>)
               ELSE NotBuilt
         [] OTHER -> NotBuilt

\* the loop over group.get('conditions', []): the texts and the parameters of
\* the conditions that are kept.  A missing field or operation reads as an
\* empty one: the code tests them with `not` only.
RECURSIVE GroupConditions(_)
GroupConditions(conditions) ==
    IF conditions = <<>> THEN [texts |-> <<>>, params |-> <<>>]
    ELSE LET condition == Head(conditions)
             rest == GroupConditions(Tail(conditions))
             field == DictGetOr(condition, "field", <<>>)
             operation == DictGetOr(condition, "operation", "")
             value == DictGetOr(condition, "value", NullValue)
         IN IF condition.kind # "dict" THEN rest
            ELSE IF field = <<>> \/ operation = "" THEN rest
            ELSE LET b == BuildCondition(field, operation, value) IN
                 IF b.text # <<>>
                 THEN [texts |-> <<b.text>> \o rest.texts, params |-> b.params \o rest.params]
                 ELSE rest

\* a loop over the groups that puts no parentheses around a group
RECURSIVE GroupClausesFlat(_)
GroupClausesFlat(groups) ==
    IF groups = <<>> THEN [texts |-> <<>>, params |-> <<>>]
    ELSE LET group == Head(groups)
             rest == GroupClausesFlat(Tail(groups))
         IN IF group.kind # "dict" THEN rest
            ELSE LET gc == GroupConditions(DictGetOr(group, "conditions", <<>>))
                     group_logic == DictGetOr(group, "logic", <<"AND">>)
                     joined == Join(<<" ">> \o group_logic \o <<" ">>, gc.texts)
                 IN IF gc.texts # <<>>
                    THEN [texts |-> <<joined>> \o rest.texts,
                          params |-> gc.params \o rest.params]
                    ELSE rest

\* the loop over filters.get('groups', [])
RECURSIVE GroupClauses(_)
GroupClauses(groups) ==
    IF groups = <<>> THEN [texts |-> <<>>, params |-> <<>>]
    ELSE LET group == Head(groups)
             rest == GroupClauses(Tail(groups))
         IN IF group.kind # "dict" THEN rest
            ELSE LET gc == GroupConditions(DictGetOr(group, "conditions", <<>>))
                     group_logic == DictGetOr(group, "logic", <<"AND">>)
                     joined == Join(<<" ">> \o group_logic \o <<" ">>, gc.texts)
                     group_clause == IF Len(gc.texts) > 1
                                     THEN <<"(">> \o joined \o <<")">>
                                     ELSE joined
                 IN IF gc.texts # <<>>
                    THEN [texts |-> <<group_clause>> \o rest.texts,
                          params |-> gc.params \o rest.params]
                    ELSE rest

\* a compiler that answers TRUE when there is nothing to filter on
BuildWhereClauseTrue(f) ==
    LET built == IF f.kind # "dict" \/ f.keys = {} THEN [texts |-> <<>>, params |-> <<>>]
                 ELSE GroupClauses(DictGetOr(f, "groups", <<>>))
        main_logic == DictGetOr(f, "logic", <<"AND">>)
    IN IF built.texts # <<>>
       THEN Built(Join(<<" ">> \o main_logic \o <<" ">>, built.texts), built.params)
       ELSE Built(<<"TRUE">>, <<>>)

\* _build_where_clause(filters)
BuildWhereClause(f) ==
    IF f.kind # "dict" \/ f.keys = {} THEN NotBuilt
    ELSE LET built == GroupClauses(DictGetOr(f, "groups", <<>>))
             main_logic == DictGetOr(f, "logic", <<"AND">>)
         IN IF built.texts # <<>>
            THEN Built(Join(<<" ">> \o main_logic \o <<" ">>, built.texts), built.params)
            ELSE NotBuilt

\* the filter specifications of a run: JSON the client sends, which
\* get_table_data_api parses and passes on as it is
Condition(field, operation, value) ==
    [kind |-> "dict", keys |-> {"field", "operation", "value"},
     field |-> field, operation |-> operation, value |-> value]
Group(keys, logic, conditions) ==
    [kind |-> "dict", keys |-> keys, logic |-> logic, conditions |-> conditions]
FilterSpec(keys, logic, groups) ==
    [kind |-> "dict", keys |-> keys, logic |-> logic, groups |-> groups]
\* JSON that is no object where an object is expected
NotACondition ==
    [kind |-> "other", keys |-> {}, field |-> <<>>, operation |-> "", value |-> NullValue]
NotAGroup == [kind |-> "other", keys |-> {}, logic |-> <<>>, conditions |-> <<>>]
NotAFilterSpec == [kind |-> "other", keys |-> {}, logic |-> <<>>, groups |-> <<>>]
EmptyFilterSpec == FilterSpec({}, <<>>, <<>>)

Fields == {<<"f">>, <<"f", "\"", "g">>}
Operations ==
    {"equals", "not_equals", "contains", "not_contains", "starts_with", "ends_with",
     "greater_than", "less_than", "greater_equal", "less_equal", "is_null",
     "is_not_null", "in", "not_in", "between", "regex"}
MinMax == DictValue(<<"min", "max">>, <<<<"v">>, <<"w">>>>)
FilterValues ==
    {StrValue(<<"v">>), StrValue(<<"v", ",", " ", "w", ",">>), StrValue(<<" ", ",">>),
     ListValue(<<<<"v">>, <<"w">>>>), ListValue(<<>>),
     MinMax, DictValue(<<"min">>, <<<<"v">>>>), NullValue}

\* the logic of a group or of a specification: absent, AND, OR, or any other
\* string the client sends in its place
Logics == {<<"AND">>, <<"OR">>, <<"OR", " ", "1=1", " ", "OR">>, <<"=", " ", "%s", " ", "OR">>}
LogicChoices == {<<{}, <<>>>>} \cup ({{"logic"}} \X Logics)

Conditions ==
    {Condition(field, operation, value) :
        field \in Fields, operation \in Operations, value \in FilterValues}
    \cup {NotACondition,
          [Condition(<<"f">>, "equals", StrValue(<<"v">>)) EXCEPT !.keys = {"operation", "value"}],
          [Condition(<<"f">>, "equals", StrValue(<<"v">>)) EXCEPT !.keys = {"field", "value"}]}
PairedConditions ==
    {Condition(<<"f">>, "equals", StrValue(<<"v">>)),
     Condition(<<"f">>, "in", StrValue(<<"v", ",", " ", "w", ",">>)),
     Condition(<<"f">>, "between", MinMax),
     Condition(<<"f">>, "is_null", NullValue),
     Condition(<<"f">>, "regex", StrValue(<<"v">>)),
     Condition(<<"f">>, "between", DictValue(<<"min">>, <<<<"v">>>>)),
     [Condition(<<"f">>, "equals", StrValue(<<"v">>)) EXCEPT !.keys = {"operation", "value"}]}
ConditionLists ==
    {<<>>} \cup {<<c>> : c \in Conditions}
           \cup {<<c, d>> : c \in PairedConditions, d \in PairedConditions}

Groups ==
    {Group(l[1] \cup {"conditions"}, l[2], cs) : l \in LogicChoices, cs \in ConditionLists}
    \cup {NotAGroup}
PairedGroups ==
    {Group(l[1] \cup {"conditions"}, l[2], cs) :
        l \in LogicChoices,
        cs \in {<<Condition(<<"f">>, "equals", StrValue(<<"v">>))>>,
                <<Condition(<<"f">>, "equals", StrValue(<<"v">>)),
                  Condition(<<"f">>, "is_null", NullValue)>>,
                <<Condition(<<"f">>, "regex", StrValue(<<"v">>))>>}}
GroupLists ==
    {<<>>} \cup {<<g>> : g \in Groups}
           \cup {<<g, h>> : g \in PairedGroups, h \in PairedGroups}

FilterSpecs ==
    {FilterSpec(l[1] \cup {"groups"}, l[2], gs) : l \in LogicChoices, gs \in GroupLists}
    \cup {NotAFilterSpec, EmptyFilterSpec}

\* no filter has been received
FilterIdle ==
    /\ filters = EmptyFilterSpec
    /\ where_clause = <<>>
    /\ params = <<>>
    /\ compiled = TRUE
    /\ data_query = <<>>

\* get_table_data_api has parsed the filters of a request
FilterReceived ==
    /\ filters \in FilterSpecs
    /\ where_clause = <<>>
    /\ params = <<>>
    /\ compiled = FALSE
    /\ data_query = <<>>

\* data_query of get_table_data: {} is the table as an identifier, and the
\* WHERE is there under `if where_clause:`
DataQuery(where) ==
    IF where # <<>>
    THEN <<"SELECT * FROM ", "{}", " WHERE ">> \o where \o <<" LIMIT ", "%s", " OFFSET ", "%s">>
    ELSE <<"SELECT * FROM ", "{}", " LIMIT ", "%s", " OFFSET ", "%s">>

\* get_table_data: where_clause, params = self._build_where_clause(filters),
\* then the query of the page
GetTableData ==
    /\ ~compiled
    /\ LET b == BuildWhereClause(filters) IN
       /\ where_clause' = b.text
       /\ params' = b.params
       /\ data_query' = DataQuery(b.text)
    /\ compiled' = TRUE
    /\ UNCHANGED filters
    /\ UNCHANGED <<cacheVars, dbVars, threadVars, sweepVars, storageVars, keyVars, raceVars>>

FilterNext == GetTableData

----------------------------------------------------------------------------
(* PlatformCacheManager under several threads: get, set, delete, clear and *)
(* invalidate_pattern statement by statement, each inside                  *)
(* `with self._locks[cache_name]`                                          *)

Threads == {"t1", "t2"}
Unlocked == "unlocked"

\* threading.RLock: free, or held by the thread that asks
LockIgnored(lk, ns, t) == TRUE
LockFree(lk, ns, t) == lk[ns] = Unlocked \/ lk[ns] = t

\* for cache_name in self._caches: the namespaces in the order of the dict
CacheOrder == <<"database_queries", "api_responses", "table_metadata", "configuration">>
\* clear() and cleanup_expired() go through all the namespaces
Sweeping(th) == th.op \in {"clear_all", "cleanup_expired"}
IsLastNamespace(ns) == ns = CacheOrder[Len(CacheOrder)]
NextNamespace(ns) == CacheOrder[(CHOOSE i \in DOMAIN CacheOrder : CacheOrder[i] = ns) + 1]

\* the locks when thread t leaves the with block of th.ns: that lock is free
LockKeptUntilReturn(lk, t, th) ==
    IF Sweeping(th) /\ ~IsLastNamespace(th.ns) THEN lk
    ELSE [ns \in CacheNames |-> IF lk[ns] = t THEN Unlocked ELSE lk[ns]]
LockAfterNamespace(lk, t, th) == [lk EXCEPT ![th.ns] = Unlocked]

\* the calls the threads make
\* every method on api_responses, and the two that go through all namespaces
ThreadKeys == {KeyApiTables(DbA), KeyApiTables(DbB)}
ThreadCalls ==
    ({"get", "set", "delete", "clear"} \X {"api_responses"} \X ThreadKeys)
    \cup ({"invalidate_pattern"} \X {"api_responses"} \X {ConnectPattern(DbA)})
    \cup ({"clear_all", "cleanup_expired"} \X {CacheOrder[1]} \X {<<>>})

\* a thread: where it is in its call (pc), the call's arguments and locals;
\* entries and counts are self._caches[ns] and self._stats[.][ns] as they were
\* when the thread took the lock; in get_stats counts holds the locals
\* total_requests, hits and misses, and result the dict stats built so far
IdleThread ==
    [pc |-> "idle", op |-> "none", ns |-> "api_responses", key |-> <<>>, val |-> None,
     at |-> 0, entries |-> <<>>, counts |-> [f \in StatNames |-> 0],
     found |-> Entry(<<>>, None, 0), oldest_key |-> <<>>, todo |-> <<>>,
     n |-> 0, ret |-> None, result |-> <<>>]

ThreadIdle ==
    /\ thread = [t \in Threads |-> IdleThread]
    /\ lock = [ns \in CacheNames |-> Unlocked]

\* the first statement of each method under the lock
FirstStatement(op) ==
    CASE op = "get" -> "get_count"
      [] op = "set" -> "set_limit"
      [] op = "delete" -> "delete_key"
      [] op = "clear" -> "clear_all"
      [] op = "clear_all" -> "clear_all"
      [] op = "cleanup_expired" -> "cleanup_collect"
      [] OTHER -> "inv_collect"

Goto(t, label) == thread' = [thread EXCEPT ![t].pc = label]

\* thread t calls a method on a namespace that exists; the pattern of
\* invalidate_pattern compiles; clear() and cleanup_expired() start with the
\* first namespace, and cleanup_expired reads the clock once, before its loop
Call(t, op, ns, key) ==
    /\ thread[t].pc = "idle"
    /\ steps < MaxThreadCalls
    /\ steps' = steps + 1
    /\ thread' = [thread EXCEPT ![t] =
                     [IdleThread EXCEPT !.pc = "acquire", !.op = op, !.ns = ns,
                                        !.key = key, !.val = "v1",
                                        !.at = IF op = "cleanup_expired" THEN now ELSE 0]]
    /\ UNCHANGED <<caches, stats, now, last, lock>>
    /\ UNCHANGED <<dbVars, filterVars, sweepVars, storageVars, keyVars, raceVars>>

\* with self._locks[cache_name]: __enter__
Acquire(t) ==
    LET th == thread[t] IN
    /\ th.pc = "acquire"
    /\ LockFree(lock, th.ns, t)
    /\ lock' = [lock EXCEPT ![th.ns] = t]
    /\ thread' = [thread EXCEPT ![t].pc = FirstStatement(th.op),
                                ![t].entries = caches[th.ns],
                                ![t].counts = [f \in StatNames |-> stats[f][th.ns]]]
    /\ UNCHANGED <<caches, stats, now, last, steps>>
    /\ UNCHANGED <<dbVars, filterVars, sweepVars, storageVars, keyVars, raceVars>>

\* with self._locks[cache_name]: __exit__; the method returns, or its loop
\* over the namespaces goes on to the next one
Release(t) ==
    LET th == thread[t] IN
    /\ th.pc = "release"
    /\ lock' = LockAfterNamespace(lock, t, th)
    /\ thread' = [thread EXCEPT ![t] =
                     IF Sweeping(th) /\ ~IsLastNamespace(th.ns)
                     THEN [th EXCEPT !.pc = "acquire", !.ns = NextNamespace(th.ns),
                                     !.entries = <<>>,
                                     !.counts = [f \in StatNames |-> 0]]
                     ELSE IdleThread]
    /\ UNCHANGED <<caches, stats, now, last, steps>>
    /\ UNCHANGED <<dbVars, filterVars, sweepVars, storageVars, keyVars, raceVars>>

\* one statement of get
GetStatement(t) ==
    LET th == thread[t]
        ns == th.ns
    IN /\ \/ /\ th.pc = "get_count"
             /\ stats' = Bump(stats, "total_requests", ns)
             /\ Goto(t, "get_lookup")
             /\ UNCHANGED caches
          \/ /\ th.pc = "get_lookup"
             /\ IF HasKey(caches[ns], th.key)
                THEN thread' = [thread EXCEPT ![t].pc = "get_check",
                                              ![t].found = DictGet(caches[ns], th.key)]
                ELSE Goto(t, "get_miss")
             /\ UNCHANGED <<caches, stats>>
          \/ /\ th.pc = "get_check"
             /\ IF WithinTTL(now, th.found.timestamp, ns)
                THEN /\ stats' = Bump(stats, "hits", ns)
                     /\ thread' = [thread EXCEPT ![t].pc = "release", ![t].at = now,
                                                 ![t].ret = th.found.data]
                     /\ UNCHANGED caches
                ELSE /\ caches' = [caches EXCEPT ![ns] = DictDel(@, th.key)]
                     /\ stats' = Bump(stats, "evictions", ns)
                     /\ thread' = [thread EXCEPT ![t].pc = "get_miss", ![t].at = now]
          \/ /\ th.pc = "get_miss"
             /\ stats' = Bump(stats, "misses", ns)
             /\ thread' = [thread EXCEPT ![t].pc = "release", ![t].ret = None]
             /\ UNCHANGED caches
       /\ UNCHANGED <<now, last, steps, lock>>
       /\ UNCHANGED <<dbVars, filterVars, sweepVars, storageVars, keyVars, raceVars>>

\* one statement of set
SetStatement(t) ==
    LET th == thread[t]
        ns == th.ns
    IN /\ \/ /\ th.pc = "set_limit"
             /\ IF AtCapacity(caches[ns], ns)
                THEN thread' = [thread EXCEPT ![t].pc = "set_evict",
                                              ![t].oldest_key = OldestKey(caches[ns])]
                ELSE Goto(t, "set_store")
             /\ UNCHANGED <<caches, stats>>
          \/ /\ th.pc = "set_evict"
             /\ caches' = [caches EXCEPT ![ns] = DictDel(@, th.oldest_key)]
             /\ stats' = Bump(stats, "evictions", ns)
             /\ Goto(t, "set_store")
          \/ /\ th.pc = "set_store"
             /\ caches' = [caches EXCEPT ![ns] = DictPut(@, Entry(th.key, th.val, now))]
             /\ thread' = [thread EXCEPT ![t].pc = "release", ![t].at = now,
                                         ![t].ret = "True"]
             /\ UNCHANGED stats
       /\ UNCHANGED <<now, last, steps, lock>>
       /\ UNCHANGED <<dbVars, filterVars, sweepVars, storageVars, keyVars, raceVars>>

\* the statement of delete
DeleteStatement(t) ==
    LET th == thread[t]
        ns == th.ns
    IN /\ th.pc = "delete_key"
       /\ caches' = [caches EXCEPT ![ns] = DictDel(@, th.key)]
       /\ thread' = [thread EXCEPT ![t].pc = "release",
                                   ![t].ret = IF HasKey(caches[ns], th.key)
                                              THEN "True" ELSE "False"]
       /\ UNCHANGED <<stats, now, last, steps, lock>>
       /\ UNCHANGED <<dbVars, filterVars, sweepVars, storageVars, keyVars, raceVars>>

\* the statement of clear(cache_name)
ClearStatement(t) ==
    LET th == thread[t] IN
    /\ th.pc = "clear_all"
    /\ caches' = [caches EXCEPT ![th.ns] = <<>>]
    /\ Goto(t, "release")
    /\ UNCHANGED <<stats, now, last, steps, lock>>
    /\ UNCHANGED <<dbVars, filterVars, sweepVars, storageVars, keyVars, raceVars>>

\* one statement of invalidate_pattern: the list of the keys to remove, then
\* one del per turn of the loop
InvalidateStatement(t) ==
    LET th == thread[t]
        ns == th.ns
        pattern_re == ReCompile(th.key)
        keys == [i \in DOMAIN caches[ns] |-> caches[ns][i].key]
    IN /\ \/ /\ th.pc = "inv_collect"
             /\ thread' = [thread EXCEPT
                              ![t].pc = "inv_remove",
                              ![t].todo = SelectSeq(keys, LAMBDA k :
                                                        ReMatch(pattern_re.items, k))]
             /\ UNCHANGED caches
          \/ /\ th.pc = "inv_remove"
             /\ IF th.todo = <<>>
                THEN /\ Goto(t, "release")
                     /\ UNCHANGED caches
                ELSE /\ caches' = [caches EXCEPT ![ns] = DictDel(@, Head(th.todo))]
                     /\ thread' = [thread EXCEPT ![t].todo = Tail(th.todo),
                                                 ![t].n = th.n + 1]
       /\ UNCHANGED <<stats, now, last, steps, lock>>
       /\ UNCHANGED <<dbVars, filterVars, sweepVars, storageVars, keyVars, raceVars>>

\* one statement of cleanup_expired in the namespace it is at: the list of
\* the expired keys, then one del per turn of the loop
CleanupStatement(t) ==
    LET th == thread[t]
        ns == th.ns
        keys == [i \in DOMAIN caches[ns] |-> caches[ns][i].key]
    IN /\ \/ /\ th.pc = "cleanup_collect"
             /\ thread' = [thread EXCEPT
                              ![t].pc = "cleanup_remove",
                              ![t].todo = SelectSeq(keys, LAMBDA k :
                                             k \in ExpiredKeys(caches[ns], ns, th.at))]
             /\ UNCHANGED <<caches, stats>>
          \/ /\ th.pc = "cleanup_remove"
             /\ IF th.todo = <<>>
                THEN /\ Goto(t, "release")
                     /\ UNCHANGED <<caches, stats>>
                ELSE /\ caches' = [caches EXCEPT ![ns] = DictDel(@, Head(th.todo))]
                     /\ stats' = Bump(stats, "evictions", ns)
                     /\ thread' = [thread EXCEPT ![t].todo = Tail(th.todo),
                                                 ![t].n = th.n + 1]
       /\ UNCHANGED <<now, last, steps, lock>>
       /\ UNCHANGED <<dbVars, filterVars, sweepVars, storageVars, keyVars, raceVars>>

\* thread t calls get_stats(), which takes no lock: the loop starts with the
\* first namespace
CallGetStats(t) ==
    /\ thread[t].pc = "idle"
    /\ steps < MaxThreadCalls
    /\ steps' = steps + 1
    /\ thread' = [thread EXCEPT ![t] =
                     [IdleThread EXCEPT !.pc = "stats_total", !.op = "get_stats",
                                        !.ns = CacheOrder[1]]]
    /\ UNCHANGED <<caches, stats, now, last, lock>>
    /\ UNCHANGED <<dbVars, filterVars, sweepVars, storageVars, keyVars, raceVars>>

\* one statement of get_stats: the three counters are read one after the
\* other, then the entry of the namespace is built; after the last namespace
\* the method returns stats
StatsStatement(t) ==
    LET th == thread[t]
        ns == th.ns
    IN /\ \/ /\ th.pc = "stats_total"
             /\ thread' = [thread EXCEPT ![t].pc = "stats_hits",
                               ![t].counts.total_requests = stats.total_requests[ns]]
          \/ /\ th.pc = "stats_hits"
             /\ thread' = [thread EXCEPT ![t].pc = "stats_misses",
                                         ![t].counts.hits = stats.hits[ns]]
          \/ /\ th.pc = "stats_misses"
             /\ thread' = [thread EXCEPT ![t].pc = "stats_entry",
                                         ![t].counts.misses = stats.misses[ns]]
          \/ /\ th.pc = "stats_entry"
             /\ LET entry == [cache_name |-> ns,
                              total_requests |-> th.counts.total_requests,
                              hits |-> th.counts.hits,
                              misses |-> th.counts.misses,
                              evictions |-> stats.evictions[ns],
                              current_size |-> Len(caches[ns]),
                              max_size |-> max_sizes(ns)]
                IN thread' = [thread EXCEPT ![t] =
                                 IF IsLastNamespace(ns)
                                 THEN [IdleThread EXCEPT !.op = "get_stats",
                                                         !.result = Append(th.result, entry)]
                                 ELSE [th EXCEPT !.pc = "stats_total",
                                                 !.ns = NextNamespace(ns),
                                                 !.result = Append(@, entry)]]
       /\ UNCHANGED <<caches, stats, now, last, steps, lock>>
       /\ UNCHANGED <<dbVars, filterVars, sweepVars, storageVars, keyVars, raceVars>>

\* the calls next to which get_stats runs
StatsCalls == {"get", "set"} \X {"api_responses"} \X {KeyApiTables(DbA)}

StatsNext ==
    \/ \E t \in Threads, call \in StatsCalls : Call(t, call[1], call[2], call[3])
    \/ \E t \in Threads : CallGetStats(t)
    \/ \E t \in Threads : Acquire(t)
    \/ \E t \in Threads : GetStatement(t)
    \/ \E t \in Threads : SetStatement(t)
    \/ \E t \in Threads : StatsStatement(t)
    \/ \E t \in Threads : Release(t)

ThreadNext ==
    \/ RequestTick
    \/ \E t \in Threads, call \in ThreadCalls : Call(t, call[1], call[2], call[3])
    \/ \E t \in Threads : Acquire(t)
    \/ \E t \in Threads : GetStatement(t)
    \/ \E t \in Threads : SetStatement(t)
    \/ \E t \in Threads : DeleteStatement(t)
    \/ \E t \in Threads : ClearStatement(t)
    \/ \E t \in Threads : InvalidateStatement(t)
    \/ \E t \in Threads : CleanupStatement(t)
    \/ \E t \in Threads : Release(t)

----------------------------------------------------------------------------
(* background_cache_cleanup: the daemon thread that sweeps the caches *)

\* the thread is started at import and is about to call cleanup_expired; no
\* shutdown has been asked for
SweepInit ==
    /\ sweep = "cleanup"
    /\ shutdown = FALSE

\* cleaned = cache_manager.cleanup_expired()
SweepCleanup ==
    /\ sweep = "cleanup"
    /\ LET r == CleanupExpired(caches, stats, now) IN
       /\ caches' = r.caches
       /\ stats' = r.stats
    /\ sweep' = "sleep"
    /\ UNCHANGED <<now, last, steps, shutdown>>
    /\ UNCHANGED <<dbVars, filterVars, threadVars, storageVars, keyVars, raceVars>>

\* time.sleep(1800) returns and `while True` starts the next turn
SweepWake ==
    /\ sweep = "sleep"
    /\ sweep' = "cleanup"
    /\ UNCHANGED <<cacheVars, shutdown, storageVars, keyVars, raceVars>>
    /\ UNCHANGED <<dbVars, filterVars, threadVars, storageVars, keyVars, raceVars>>

\* the application is asked to stop; nothing in the loop reads the request
RequestShutdown ==
    /\ ~shutdown
    /\ shutdown' = TRUE
    /\ UNCHANGED <<cacheVars, sweep, storageVars, keyVars, raceVars>>
    /\ UNCHANGED <<dbVars, filterVars, threadVars, storageVars, keyVars, raceVars>>

\* the sweep next to requests that fill the cache
SweepNext ==
    \/ RequestTick
    \/ \E call \in KeyCalls, value \in Values : Set(call[1], call[2], value)
    \/ SweepCleanup
    \/ SweepWake
    \/ RequestShutdown

----------------------------------------------------------------------------
(* DatabaseStorage: the stored database configurations, read through the   *)
(* 'configuration' namespace of the cache.  Python lists are objects: heap  *)
(* holds the contents of each list, and a cached value is the index of its  *)
(* list in heap                                                             *)

\* f"stored_databases:{self.storage_file}"
KeyStoredDatabases == <<"stored_databases", ":", "stored_databases.json">>

StoredNames == {"a", "b"}
\* new_db: its id is a fresh uuid4, here the number of the call
NewDb(id, name) == [id |-> id, name |-> name]

\* ensure_storage_file: the file holds no database; nothing is loaded yet
StorageInit ==
    /\ heap = <<>>
    /\ storage_file = <<>>
    /\ stored = <<>>
    /\ loaded = [op |-> "none", list |-> 0, ret |-> FALSE, cached |-> FALSE]

\* load_databases(): the cached list itself when there is one, else the list
\* read from the file, which is put in the cache and returned; a cached value
\* is a list and never None, so `cached_result is not None` is a hit
LoadDatabases(c, s, h, file, t) ==
    LET g == CacheGet(c, s, "configuration", KeyStoredDatabases, t) IN
    IF g.hit
    THEN [caches |-> g.caches, stats |-> g.stats, heap |-> h, ret |-> g.ret,
          cached |-> FALSE, evicted |-> <<>>]
    ELSE LET databases == Len(h) + 1
             st == CacheSet(g.caches, g.stats, "configuration", KeyStoredDatabases,
                            databases, t)
         IN [caches |-> st.caches, stats |-> st.stats, heap |-> Append(h, file),
             ret |-> databases, cached |-> TRUE, evicted |-> st.evicted]

\* save_databases(databases): the file is written and the cached list dropped,
\* or writing raises and False is returned
SaveDatabases(c, file, databases, writable) ==
    IF writable
    THEN [caches |-> CacheDelete(c, "configuration", KeyStoredDatabases).caches,
          file |-> databases, ret |-> TRUE]
    ELSE [caches |-> c, file |-> file, ret |-> FALSE]

\* for i, db in enumerate(databases): if db['id'] == db_id
Positions(databases, db_id) == {i \in DOMAIN databases : databases[i].id = db_id}
FirstPosition(databases, db_id) ==
    CHOOSE i \in Positions(databases, db_id) :
        \A j \in Positions(databases, db_id) : i <= j

\* a call on the storage leaves the rest of the application alone
StorageCall == Step /\ UNCHANGED <<dbVars, filterVars, threadVars, sweepVars, keyVars, raceVars>>

\* the last call the storage made on the cache while loading
LoadedCall(l) ==
    IF l.cached
    THEN [Op("set", "configuration", KeyStoredDatabases) EXCEPT
             !.val = l.ret, !.ret = "True", !.evicted = l.evicted]
    ELSE [Op("get", "configuration", KeyStoredDatabases) EXCEPT
             !.ret = l.ret, !.hit = TRUE]

\* the list as cache_manager.set stored it
StoredBy(l, file) == IF l.cached THEN file ELSE stored

\* get_stored_databases()
GetStoredDatabases ==
    /\ StorageCall
    /\ LET l == LoadDatabases(caches, stats, heap, storage_file, now) IN
       /\ caches' = l.caches
       /\ stats' = l.stats
       /\ heap' = l.heap
       /\ stored' = StoredBy(l, storage_file)
       /\ last' = LoadedCall(l)
       /\ loaded' = [op |-> "load_databases", list |-> l.ret, ret |-> TRUE,
                     cached |-> l.cached]
    /\ UNCHANGED <<now, storage_file>>

\* add_database(name, ...): databases.append(new_db) on the list it loaded
AddDatabase(name, writable) ==
    /\ StorageCall
    /\ LET l == LoadDatabases(caches, stats, heap, storage_file, now)
           h == [l.heap EXCEPT ![l.ret] = Append(@, NewDb(steps, name))]
           sv == SaveDatabases(l.caches, storage_file, h[l.ret], writable)
       IN /\ caches' = sv.caches
          /\ stats' = l.stats
          /\ heap' = h
          /\ storage_file' = sv.file
          /\ stored' = StoredBy(l, storage_file)
          /\ last' = IF sv.ret
                     THEN [Op("delete", "configuration", KeyStoredDatabases) EXCEPT
                              !.ret = "True"]
                     ELSE LoadedCall(l)
          /\ loaded' = [op |-> "add_database", list |-> l.ret, ret |-> sv.ret,
                        cached |-> l.cached]
    /\ UNCHANGED now

\* update_database(db_id, name, ...): databases[i].update({...}) on the list it
\* loaded, and False without saving when no database has the id
UpdateDatabase(db_id, name, writable) ==
    /\ StorageCall
    /\ LET l == LoadDatabases(caches, stats, heap, storage_file, now)
           databases == l.heap[l.ret]
           found == Positions(databases, db_id) # {}
           h == IF found
                THEN [l.heap EXCEPT ![l.ret][FirstPosition(databases, db_id)].name = name]
                ELSE l.heap
           sv == SaveDatabases(l.caches, storage_file, h[l.ret], found /\ writable)
       IN /\ caches' = sv.caches
          /\ stats' = l.stats
          /\ heap' = h
          /\ storage_file' = sv.file
          /\ stored' = StoredBy(l, storage_file)
          /\ last' = IF sv.ret
                     THEN [Op("delete", "configuration", KeyStoredDatabases) EXCEPT
                              !.ret = "True"]
                     ELSE LoadedCall(l)
          /\ loaded' = [op |-> "update_database", list |-> l.ret, ret |-> sv.ret,
                        cached |-> l.cached]
    /\ UNCHANGED now

\* delete_database(db_id): a new list without the database, which is saved;
\* the new list is garbage when the call returns and is not kept in heap
DeleteDatabase(db_id, writable) ==
    /\ StorageCall
    /\ LET l == LoadDatabases(caches, stats, heap, storage_file, now)
           databases == SelectSeq(l.heap[l.ret], LAMBDA db : db.id # db_id)
           sv == SaveDatabases(l.caches, storage_file, databases, writable)
       IN /\ caches' = sv.caches
          /\ stats' = l.stats
          /\ heap' = l.heap
          /\ storage_file' = sv.file
          /\ stored' = StoredBy(l, storage_file)
          /\ last' = IF sv.ret
                     THEN [Op("delete", "configuration", KeyStoredDatabases) EXCEPT
                              !.ret = "True"]
                     ELSE LoadedCall(l)
          /\ loaded' = [op |-> "delete_database", list |-> l.ret, ret |-> sv.ret,
                        cached |-> l.cached]
    /\ UNCHANGED now

\* api_databases_create: the handler tests the connection (reach), reads
\* stored_databases.json itself, refuses a name that exists, appends new_db
\* and writes the file itself; it makes no call on the cache
ApiDatabasesCreate(name, reach, writable) ==
    /\ StorageCall
    /\ LET databases == storage_file
           exists == \E i \in DOMAIN databases : databases[i].name = name
           written == reach /\ ~exists /\ writable
       IN /\ storage_file' = IF written THEN Append(databases, NewDb(steps, name))
                              ELSE storage_file
          /\ loaded' = [op |-> "api_databases_create", list |-> 0, ret |-> written,
                        cached |-> FALSE]
    /\ UNCHANGED <<caches, stats, now, last, heap, stored>>

StorageNext ==
    \/ Tick
    \/ GetStoredDatabases
    \/ \E name \in StoredNames, reach \in BOOLEAN, writable \in BOOLEAN :
          ApiDatabasesCreate(name, reach, writable)
    \/ \E name \in StoredNames, writable \in BOOLEAN : AddDatabase(name, writable)
    \/ \E db_id \in 0..(MaxSteps - 1), name \in StoredNames, writable \in BOOLEAN :
          UpdateDatabase(db_id, name, writable)
    \/ \E db_id \in 0..(MaxSteps - 1), writable \in BOOLEAN :
          DeleteDatabase(db_id, writable)

----------------------------------------------------------------------------
(* The cache keys built from the parameters of a request:                   *)
(* _generate_export_cache_key, api_bulk_table_stats and the decorator       *)
(* cached.  A dict is the sequence of its items in insertion order.         *)

KStr(x) == [kind |-> "str", s |-> x, items |-> <<>>]
KList(items) == [kind |-> "list", s |-> "", items |-> items]
KDict(items) == [kind |-> "dict", s |-> "", items |-> items]
Item(k, v) == [k |-> k, v |-> v]

\* the strings of a run in the order of Python's string comparison
StringOrder ==
    <<"columns", "conditions", "field", "filters", "groups", "limit", "operation",
      "page", "t1", "t2", "t3", "table", "value">>
Rank(x) == CHOOSE i \in DOMAIN StringOrder : StringOrder[i] = x

\* sorted(names) of distinct strings
Sorted(names) ==
    [n \in DOMAIN names |->
        CHOOSE x \in {names[i] : i \in DOMAIN names} :
            Cardinality({y \in {names[i] : i \in DOMAIN names} : Rank(y) < Rank(x)}) = n - 1]

\* the items of a dict sorted by key
SortedItems(items) ==
    [n \in DOMAIN items |->
        CHOOSE it \in {items[i] : i \in DOMAIN items} :
            Cardinality({o \in {items[i] : i \in DOMAIN items} : Rank(o.k) < Rank(it.k)}) = n - 1]

\* json.dumps(v, sort_keys=True): the keys of every dict sorted, a list in
\* its own order
RECURSIVE JsonDumps(_)
JsonDumps(v) ==
    CASE v.kind = "str" -> <<"\"", v.s, "\"">>
      [] v.kind = "list" ->
            <<"[">> \o Join(<<", ">>, [i \in DOMAIN v.items |-> JsonDumps(v.items[i])])
                    \o <<"]">>
      [] OTHER ->
            LET its == SortedItems(v.items) IN
            <<"{">> \o Join(<<", ">>, [i \in DOMAIN its |->
                                        <<"\"", its[i].k, "\"", ": ">> \o JsonDumps(its[i].v)])
                    \o <<"}">>

\* str(v): a dict in insertion order
RECURSIVE PyStr(_)
PyStr(v) ==
    CASE v.kind = "str" -> <<"'", v.s, "'">>
      [] v.kind = "list" ->
            <<"[">> \o Join(<<", ">>, [i \in DOMAIN v.items |-> PyStr(v.items[i])]) \o <<"]">>
      [] OTHER ->
            <<"{">> \o Join(<<", ">>, [i \in DOMAIN v.items |->
                                        <<"'", v.items[i].k, "'", ": ">> \o PyStr(v.items[i].v)])
                    \o <<"}">>

\* hashlib.md5(...).hexdigest() and hash(...): equal on equal strings, and
\* taken to differ on different ones
Md5(text) == <<"md5">> \o text
Hash(text) == <<"hash">> \o text

\* _generate_export_cache_key(table_name, filters, selected_columns)
ExportCacheKey(table_name, fs, selected_columns) ==
    LET cache_data == KDict(<<Item("table", KStr(table_name)), Item("filters", fs),
                              Item("columns", KList(selected_columns))>>)
    IN Md5(JsonDumps(cache_data))

\* api_bulk_table_stats: f"bulk_stats:{':'.join(sorted(table_names))}:{limit}:{database}"
BulkStatsKey(table_names, limit, database) ==
    LET names == Sorted(table_names) IN
    <<"bulk_stats", ":">> \o Join(<<":">>, [i \in DOMAIN names |-> <<names[i]>>])
        \o <<":", limit, ":">> \o database

\* cached: f"{func.__name__}:{hash(str(args) + str(sorted(kwargs.items())))}"
CachedKey(func_name, args, kwargs) ==
    LET items == SortedItems(kwargs) IN
    <<func_name, ":">>
        \o Hash(<<"(">> \o Join(<<", ">>, [i \in DOMAIN args |-> PyStr(args[i])]) \o <<")">>
                \o <<"[">> \o Join(<<", ">>, [i \in DOMAIN items |->
                                                <<"('", items[i].k, "', ">>
                                                    \o PyStr(items[i].v) \o <<")">>])
                \o <<"]">>)

\* the requests of a run: one resource and one page, written in different
\* orders.  A condition is written with its keys in one of the orders of
\* KeyOrders, the two conditions of the group in either order, the table
\* names and the keyword arguments in any order.
Permuted(items, order) == [i \in DOMAIN order |-> items[order[i]]]
Orders(n) == {o \in [1..n -> 1..n] : \A i, j \in 1..n : i # j => o[i] # o[j]}

ConditionItems(field, operation, value) ==
    <<Item("field", KStr(field)), Item("operation", KStr(operation)),
      Item("value", KStr(value))>>
KeyFilters ==
    {KDict(<<Item("groups", KList(<<KDict(<<Item("conditions",
                KList(Permuted(<<KDict(Permuted(ConditionItems("f", "equals", "v"), o1)),
                                 KDict(Permuted(ConditionItems("g", "equals", "w"), o2))>>,
                               oc)))>>)>>))>>) :
        o1 \in Orders(3), o2 \in {<<1, 2, 3>>, <<3, 2, 1>>}, oc \in Orders(2)}
KeyRequests ==
    {[table_names |-> Permuted(<<"t1", "t2", "t3">>, ot),
      filters |-> fs,
      kwargs |-> Permuted(<<Item("limit", KStr("50")), Item("page", KStr("1"))>>, ok)] :
        ot \in Orders(3), fs \in KeyFilters, ok \in Orders(2)}

\* the request every other one is a reordering of
ReferenceRequest ==
    [table_names |-> <<"t1", "t2", "t3">>,
     filters |-> KDict(<<Item("groups", KList(<<KDict(<<Item("conditions",
                    KList(<<KDict(ConditionItems("f", "equals", "v")),
                            KDict(ConditionItems("g", "equals", "w"))>>))>>)>>))>>),
     kwargs |-> <<Item("limit", KStr("50")), Item("page", KStr("1"))>>]

\* the three keys of a request
KeysOfRequest(r) ==
    [export |-> ExportCacheKey("t1", r.filters, <<KStr("c")>>),
     bulk |-> BulkStatsKey(r.table_names, "20", DbA),
     cached |-> CachedKey("get_table_data", <<KStr("t1"), r.filters>>, r.kwargs)]

NoKeys == [export |-> <<>>, bulk |-> <<>>, cached |-> <<>>]

\* no request has been keyed
KeyIdle ==
    /\ key_request = ReferenceRequest
    /\ key_result = [built |-> TRUE, reference |-> NoKeys, request |-> NoKeys]

\* a request has come in
KeyReceived ==
    /\ key_request \in KeyRequests
    /\ key_result = [built |-> FALSE, reference |-> NoKeys, request |-> NoKeys]

\* the keys of the request, and those of the reference request
BuildKeys ==
    /\ ~key_result.built
    /\ key_result' = [built |-> TRUE, reference |-> KeysOfRequest(ReferenceRequest),
                      request |-> KeysOfRequest(key_request)]
    /\ UNCHANGED key_request
    /\ UNCHANGED <<cacheVars, dbVars, filterVars, threadVars, sweepVars, storageVars, raceVars>>

KeyNext == BuildKeys

----------------------------------------------------------------------------
(* DatabaseManager.get_tables and connect called by two request threads,   *)
(* statement by statement.  The methods of DatabaseManager take no lock;   *)
(* each call on the cache manager runs under the lock of its namespace     *)
(* and is one step.  race.conn is the connection object self.connection    *)
(* refers to (0 for None), race.g the thread in get_tables, race.c the     *)
(* thread in connect, and race.done what the completed connects replaced.  *)

\* what the query of get_tables returns over connection number conn to db
QueryResult(db, conn) == [rows |-> DataFrom(db), conn |-> conn]

RaceIdle ==
    race = [conn |-> 0, made |-> 0, done |-> {},
            g |-> [pc |-> "idle", cache_key |-> <<>>, tables |-> QueryResult(NoDb, 0)],
            c |-> [pc |-> "idle", target |-> NoDb, reach |-> FALSE, old |-> 0]]

\* a step of one of the two threads leaves the rest of the application alone
RaceStep ==
    /\ UNCHANGED <<now, last, current_db, req>>
    /\ UNCHANGED <<filterVars, threadVars, sweepVars, storageVars, keyVars>>

\* a request calls db_manager.get_tables()
CallGetTables ==
    /\ race.g.pc = "idle"
    /\ steps < MaxThreadCalls
    /\ steps' = steps + 1
    /\ race' = [race EXCEPT !.g.pc = "gt_begin"]
    /\ UNCHANGED <<caches, stats, connection, config_db>>
    /\ RaceStep

\* self.connect(), called by _ensure_connection_health in get_tables when its
\* test query raised: the statements of connect without another thread between
\* them
Reconnected ==
    LET st == DbConnect(St, config_db, TRUE) IN
    /\ caches' = st.caches
    /\ connection' = st.conn
    /\ config_db' = st.cfg
    /\ UNCHANGED stats

\* one statement of get_tables
GetTablesStatement ==
    LET g == race.g IN
    /\ \/ \* if not self.connection: return; cache_key = f"tables:{...}"
          /\ g.pc = "gt_begin"
          /\ race' = IF connection.open
                     THEN [race EXCEPT !.g.pc = "gt_get",
                                       !.g.cache_key = KeyTables(config_db)]
                     ELSE [race EXCEPT !.g.pc = "idle"]
          /\ UNCHANGED <<caches, stats, connection, config_db>>
       \/ \* cached_result = cache_manager.get('database_queries', cache_key)
          /\ g.pc = "gt_get"
          /\ LET r == CacheGet(caches, stats, "database_queries", g.cache_key, now) IN
             /\ caches' = r.caches
             /\ stats' = r.stats
             /\ race' = [race EXCEPT !.g.pc = IF r.hit THEN "idle" ELSE "gt_health"]
          /\ UNCHANGED <<connection, config_db>>
       \/ \* if not self._ensure_connection_health(): return
          /\ g.pc = "gt_health"
          /\ IF ~connection.open
             THEN /\ race' = [race EXCEPT !.g.pc = "idle"]
                  /\ UNCHANGED <<caches, stats, connection, config_db>>
             ELSE IF connection.alive
             THEN /\ race' = [race EXCEPT !.g.pc = "gt_query"]
                  /\ UNCHANGED <<caches, stats, connection, config_db>>
             ELSE /\ Reconnected
                  /\ race' = [race EXCEPT !.g.pc = "gt_query",
                                          !.conn = race.made + 1,
                                          !.made = race.made + 1,
                                          !.done = @ \cup {[target |-> config_db,
                                                            old |-> race.conn]}]
       \/ \* cursor.execute(...); tables = [...]; a closed connection raises,
          \* and the except branch reconnects, queries again and returns
          /\ g.pc = "gt_query"
          /\ IF connection.alive
             THEN /\ race' = [race EXCEPT !.g.pc = "gt_set",
                                          !.g.tables = QueryResult(connection.db, race.conn)]
                  /\ UNCHANGED <<caches, stats, connection, config_db>>
             ELSE /\ Reconnected
                  /\ race' = [race EXCEPT !.g.pc = "idle",
                                          !.conn = race.made + 1,
                                          !.made = race.made + 1,
                                          !.done = @ \cup {[target |-> config_db,
                                                            old |-> race.conn]}]
       \/ \* cache_manager.set('database_queries', cache_key, tables)
          /\ g.pc = "gt_set"
          /\ LET r == CacheSet(caches, stats, "database_queries", g.cache_key,
                               g.tables, now) IN
             /\ caches' = r.caches
             /\ stats' = r.stats
          /\ race' = [race EXCEPT !.g.pc = "idle"]
          /\ UNCHANGED <<connection, config_db>>
    /\ UNCHANGED steps
    /\ RaceStep

\* a request calls db_manager.connect(config); reach is whether
\* psycopg2.connect will succeed
CallConnect(target, reach) ==
    /\ race.c.pc = "idle"
    /\ steps < MaxThreadCalls
    /\ steps' = steps + 1
    /\ race' = [race EXCEPT !.c = [pc |-> "cn_close", target |-> target,
                                  reach |-> reach, old |-> 0]]
    /\ UNCHANGED <<caches, stats, connection, config_db>>
    /\ RaceStep

\* the namespace the next invalidate_pattern of connect works on
InvalidateLabels == <<"cn_inv1", "cn_inv2", "cn_inv3">>

\* one statement of connect
ConnectStatement ==
    LET c == race.c IN
    /\ \/ \* if self.connection: self.connection.close()
          /\ c.pc = "cn_close"
          /\ connection' = IF connection.open THEN [connection EXCEPT !.alive = FALSE]
                           ELSE connection
          /\ race' = [race EXCEPT !.c.pc = "cn_open", !.c.old = race.conn]
          /\ UNCHANGED <<caches, stats, config_db>>
       \/ \* self.connection = psycopg2.connect(**connect_config), or it raises
          /\ c.pc = "cn_open"
          /\ IF c.reach
             THEN /\ connection' = [open |-> TRUE, db |-> c.target, alive |-> TRUE]
                  /\ race' = [race EXCEPT !.c.pc = "cn_config",
                                          !.conn = race.made + 1,
                                          !.made = race.made + 1]
             ELSE /\ race' = [race EXCEPT !.c.pc = "idle"]
                  /\ UNCHANGED connection
          /\ UNCHANGED <<caches, stats, config_db>>
       \/ \* self.config.update(connect_config)
          /\ c.pc = "cn_config"
          /\ config_db' = c.target
          /\ race' = [race EXCEPT !.c.pc = "cn_inv1"]
          /\ UNCHANGED <<caches, stats, connection>>
       \/ \* cache_manager.invalidate_pattern(<namespace>, f".*:{database}")
          \E i \in DOMAIN InvalidateLabels :
             /\ c.pc = InvalidateLabels[i]
             /\ caches' = InvalidatePattern(caches, InvalidatedNames[i],
                                            ConnectPattern(c.target)).caches
             /\ race' = IF i < Len(InvalidateLabels)
                        THEN [race EXCEPT !.c.pc = InvalidateLabels[i + 1]]
                        ELSE [race EXCEPT !.c.pc = "idle",
                                          !.done = @ \cup {[target |-> c.target,
                                                            old |-> c.old]}]
             /\ UNCHANGED <<stats, connection, config_db>>
    /\ UNCHANGED steps
    /\ RaceStep

RaceNext ==
    \/ CallGetTables
    \/ GetTablesStatement
    \/ \E target \in {DbA, DbB}, reach \in BOOLEAN : CallConnect(target, reach)
    \/ ConnectStatement

----------------------------------------------------------------------------
(* The specifications *)

\* the module-level cache_manager and db_manager after import
Init ==
    /\ CacheInit /\ DbInit /\ FilterIdle /\ ThreadIdle /\ SweepInit /\ StorageInit /\ KeyIdle
    /\ RaceIdle

\* the web application under a sequence of requests
SpecDb == Init /\ [][DbNext]_vars

\* the web application under a sequence of requests after a restart
InitRestart ==
    /\ CacheInit /\ DbRestarted /\ FilterIdle /\ ThreadIdle /\ SweepInit /\ StorageInit
    /\ KeyIdle /\ RaceIdle
SpecRestart == InitRestart /\ [][DbNext]_vars

\* the cache manager alone under a sequence of calls
Spec == Init /\ [][CacheNext]_vars

\* the filter compiler on the filters of one request
InitFilter ==
    /\ CacheInit /\ DbInit /\ FilterReceived /\ ThreadIdle /\ SweepInit /\ StorageInit
    /\ KeyIdle /\ RaceIdle
SpecFilter == InitFilter /\ [][FilterNext]_vars

\* the cache manager under calls from several threads
SpecThreads == Init /\ [][ThreadNext]_vars

\* get_tables and connect on two request threads
SpecRace == Init /\ [][RaceNext]_vars

\* get_stats next to get and set calls of other threads
SpecStats == Init /\ [][StatsNext]_vars

\* the stored database configurations under a sequence of calls
SpecStorage == Init /\ [][StorageNext]_vars

\* the cache keys of one request
InitKeys ==
    /\ CacheInit /\ DbInit /\ FilterIdle /\ ThreadIdle /\ SweepInit /\ StorageInit
    /\ KeyReceived /\ RaceIdle
SpecKeys == InitKeys /\ [][KeyNext]_vars

\* the background sweep: the thread is scheduled again and again
SpecSweep ==
    Init /\ [][SweepNext]_vars /\ WF_vars(SweepCleanup) /\ WF_vars(SweepWake)

----------------------------------------------------------------------------
(* Properties of the cache under sequential calls (Spec) *)

KnownCall(l, op) == l.op = op /\ l.ns \in CacheNames
\* this step is a call of op on one of the namespaces
CallStep(op) == steps' = steps + 1 /\ KnownCall(last', op)

\* C1: after any sequence of get, set, delete, clear, invalidate_pattern and
\* cleanup_expired calls, no namespace holds more entries than its maximum size.
C1_SizeWithinCapacity ==
    \A ns \in CacheNames : Len(caches[ns]) <= max_sizes(ns)

\* a set has just evicted an entry of a full namespace, which is full again
C1_Witness ==
    /\ KnownCall(last, "set")
    /\ last.evicted # <<>>
    /\ Len(caches[last.ns]) = max_sizes(last.ns)

\* C2: a get on an entry that is present and whose age (now - insertedAt) has
\* reached the namespace TTL returns the default, removes the entry and lowers
\* current_size of get_stats by one; a get that returns a hit found an entry
\* younger than the TTL.
C2_ExpiredGetIsMiss ==
    [][CallStep("get") /\ HasKey(caches[last'.ns], last'.key) =>
        LET ns == last'.ns
            key == last'.key
            age == now - DictGet(caches[ns], key).timestamp
        IN /\ age >= ttl_settings(ns) =>
                /\ last'.ret = None
                /\ ~last'.hit
                /\ ~HasKey(caches'[ns], key)
                /\ GetStats(caches', stats')[ns].current_size
                      = GetStats(caches, stats)[ns].current_size - 1
           /\ last'.hit => age < ttl_settings(ns)]_vars

\* a get has just found its entry expired
C2_Witness ==
    /\ KnownCall(last, "get")
    /\ last.expired
    /\ ~HasKey(caches[last.ns], last.key)

\* C5: set(ns, k, v) immediately followed by get(ns, k), with less than the TTL
\* elapsed between the two, returns v as a hit.
C5_SetThenGet ==
    [][(/\ KnownCall(last, "set")
        /\ CallStep("get")
        /\ last'.ns = last.ns
        /\ last'.key = last.key
        /\ now - last.at < ttl_settings(last.ns))
       => (last'.ret = last.val /\ last'.hit)]_vars

\* a get that directly followed the set of its key, later on the clock but within
\* the TTL, and hit
C5_Witness ==
    /\ KnownCall(last, "get")
    /\ last.after_set
    /\ last.hit
    /\ last.ret = "v1"
    /\ now > DictGet(caches[last.ns], last.key).timestamp

\* C6: a set into a namespace at capacity removes exactly one entry, one whose
\* timestamp is the smallest of the namespace, before it inserts, and adds one to
\* evictions; a get hit changes no entry (so no timestamp).
C6_EvictsOldestInserted ==
    [][/\ (CallStep("set") /\ Len(caches[last'.ns]) >= max_sizes(last'.ns)) =>
            LET ns == last'.ns
                gone == last'.evicted
            IN /\ HasKey(caches[ns], gone)
               /\ \A k \in KeysOf(caches[ns]) :
                     DictGet(caches[ns], gone).timestamp <= DictGet(caches[ns], k).timestamp
               /\ KeysOf(caches'[ns]) = (KeysOf(caches[ns]) \ {gone}) \cup {last'.key}
               /\ \A k \in KeysOf(caches[ns]) \ {gone, last'.key} :
                     DictGet(caches'[ns], k) = DictGet(caches[ns], k)
               /\ stats'.evictions[ns] = stats.evictions[ns] + 1
       /\ (CallStep("get") /\ last'.hit) => caches' = caches]_vars

\* a set has evicted the older of two entries with different timestamps
C6_Witness ==
    /\ KnownCall(last, "set")
    /\ last.evicted # <<>>
    /\ last.evicted # last.key
    /\ Len(caches[last.ns]) = 2
    /\ caches[last.ns][1].timestamp # caches[last.ns][2].timestamp
    /\ stats.evictions[last.ns] = 1

\* C30: a set on a key that is already in the namespace changes the entry of
\* that key only (its value and its timestamp): the number of entries, the
\* entry of every other key and evictions stay as they were, also when the
\* namespace is at capacity.
C30_SetOfPresentKeyChangesOneEntry ==
    [][(CallStep("set") /\ HasKey(caches[last'.ns], last'.key)) =>
        LET ns == last'.ns
            key == last'.key
        IN /\ DictGet(caches'[ns], key).data = last'.val
           /\ DictGet(caches'[ns], key).timestamp = now
           /\ Len(caches'[ns]) = Len(caches[ns])
           /\ \A k \in KeysOf(caches[ns]) \ {key} :
                 /\ HasKey(caches'[ns], k)
                 /\ DictGet(caches'[ns], k) = DictGet(caches[ns], k)
           /\ \A n \in CacheNames \ {ns} : caches'[n] = caches[n]
           /\ stats'.evictions = stats.evictions]_vars

\* C8: invalidate_pattern(ns, pattern) removes from ns exactly the keys the
\* pattern matches, returns how many it removed, and leaves the other entries of
\* ns and every other namespace as they were.
C8_InvalidateExactlyMatching ==
    [][(CallStep("invalidate_pattern") /\ ~last'.raised) =>
        LET ns == last'.ns
            items == ReCompile(last'.key).items
            matching == {k \in KeysOf(caches[ns]) : ReMatch(items, k)}
        IN /\ KeysOf(caches'[ns]) = KeysOf(caches[ns]) \ matching
           /\ caches'[ns] = SelectSeq(caches[ns], LAMBDA e : e.key \notin matching)
           /\ last'.n = Cardinality(matching)
           /\ \A other \in CacheNames \ {ns} : caches'[other] = caches[other]
           /\ stats' = stats]_vars

\* an invalidation has removed a key and left another
C8_Witness ==
    /\ KnownCall(last, "invalidate_pattern")
    /\ last.n = 1
    /\ Len(caches[last.ns]) = 1

\* the counters of namespace ns after the step, as the counters before it
\* plus the given increments
CountersAdd(ns, total, hits, misses, evictions) ==
    /\ stats'.total_requests[ns] = stats.total_requests[ns] + total
    /\ stats'.hits[ns] = stats.hits[ns] + hits
    /\ stats'.misses[ns] = stats.misses[ns] + misses
    /\ stats'.evictions[ns] = stats.evictions[ns] + evictions

\* C12: a get on a known namespace adds one to that namespace's total_requests
\* and one to exactly one of hits and misses: to hits when the entry is there
\* and younger than the TTL, to misses otherwise; it adds one to evictions when
\* the entry is there and expired, and leaves evictions alone otherwise; the
\* counters of the other namespaces are untouched.
C12_GetCounts ==
    [][CallStep("get") =>
        LET ns == last'.ns
            key == last'.key
            present == HasKey(caches[ns], key)
            fresh == present /\ now - DictGet(caches[ns], key).timestamp < ttl_settings(ns)
        IN /\ IF fresh THEN CountersAdd(ns, 1, 1, 0, 0)
              ELSE IF present THEN CountersAdd(ns, 1, 0, 1, 1)
              ELSE CountersAdd(ns, 1, 0, 1, 0)
           /\ \A other \in CacheNames \ {ns} : CountersAdd(other, 0, 0, 0, 0)]_vars

\* a get has just found its entry expired, after a get that was a hit
C12_Witness ==
    /\ KnownCall(last, "get")
    /\ last.expired
    /\ stats.hits[last.ns] > 0
    /\ stats.evictions[last.ns] > 0
    /\ stats.misses[last.ns] > 0

\* this step is a call with a name that is no namespace
UnknownNameStep ==
    /\ steps' = steps + 1
    /\ last'.op \in {"get", "set", "delete", "clear", "invalidate_pattern"}
    /\ last'.ns \notin CacheNames
    /\ last'.ns # None

Removed(ns) == Len(caches[ns]) - Len(caches'[ns])

\* C14: cleanup_expired leaves in every namespace exactly the entries younger
\* than the namespace's TTL, unchanged and in their order; it returns the number
\* of entries removed over all namespaces and adds to each namespace's evictions
\* the number removed from it; the other counters are untouched.
C14_CleanupRemovesExpired ==
    [][(steps' = steps + 1 /\ last'.op = "cleanup_expired") =>
        /\ \A ns \in CacheNames :
              /\ caches'[ns] = SelectSeq(caches[ns],
                                   LAMBDA e : now - e.timestamp < ttl_settings(ns))
              /\ stats'.evictions[ns] = stats.evictions[ns] + Removed(ns)
              /\ stats'.hits[ns] = stats.hits[ns]
              /\ stats'.misses[ns] = stats.misses[ns]
              /\ stats'.total_requests[ns] = stats.total_requests[ns]
        /\ last'.n = Removed("database_queries") + Removed("api_responses")
                         + Removed("table_metadata")]_vars

\* cleanup_expired has just removed an entry and kept a younger one
C14_Witness ==
    /\ last.op = "cleanup_expired"
    /\ last.n > 0
    /\ \E ns \in CacheNames : caches[ns] # <<>>

\* C17: a removed entry stays removed until its key is set again.  delete
\* and clear leave no entry behind (expiry, eviction and invalidate_pattern are
\* C2, C6 and C8); a get for a key that has no entry returns the default and
\* creates none; and a key comes to have an entry only by a set for that key,
\* whose entry holds the value of the set and the time of the set.
C17_RemovedUntilSetAgain ==
    [][/\ CallStep("delete") => ~HasKey(caches'[last'.ns], last'.key)
       /\ CallStep("clear") => caches'[last'.ns] = <<>>
       /\ (CallStep("get") /\ ~HasKey(caches[last'.ns], last'.key)) =>
              /\ last'.ret = None
              /\ ~last'.hit
              /\ ~HasKey(caches'[last'.ns], last'.key)
       /\ \A ns \in CacheNames :
              \A k \in KeysOf(caches'[ns]) \ KeysOf(caches[ns]) :
                  /\ CallStep("set")
                  /\ last'.ns = ns /\ last'.key = k
                  /\ DictGet(caches'[ns], k).timestamp = now
                  /\ DictGet(caches'[ns], k).data = last'.val]_vars

\* the one key used on api_responses had an entry, a get found it expired and
\* removed it, and a set at a later time has just created it anew
C17_Witness ==
    /\ KnownCall(last, "set")
    /\ last.ns = "api_responses"
    /\ last.evicted = <<>>
    /\ stats.evictions[last.ns] > 0
    /\ stats.misses[last.ns] > 0
    /\ now > 0
    /\ DictGet(caches[last.ns], last.key).timestamp = now

\* C18: no call on the cache manager lowers a counter of any namespace, and
\* delete, clear(ns), clear() and invalidate_pattern leave every counter as
\* it was.
C18_CountersNeverDecrease ==
    [][/\ \A f \in StatNames, ns \in CacheNames : stats'[f][ns] >= stats[f][ns]
       /\ (\/ CallStep("delete") \/ CallStep("clear")
           \/ CallStep("invalidate_pattern")
           \/ (steps' = steps + 1 /\ last'.op = "clear")) => stats' = stats]_vars

\* clear() has just emptied every namespace, one of which had counted a get
\* and a hit
C18_Witness ==
    /\ last.op = "clear"
    /\ last.ns = None
    /\ \E ns \in CacheNames : stats.hits[ns] > 0 /\ stats.total_requests[ns] > 0
    /\ \A ns \in CacheNames : caches[ns] = <<>>

\* C20: when the invalidate_pattern that a connect calls is given an invalid
\* regular expression and raises, no entry is removed and what the caller of
\* the connect is told is not that the connection failed.
C20_InvalidPatternIsReported ==
    [][(steps' = steps + 1 /\ req'.op = "connect" /\ req'.raised) =>
          /\ caches' = caches
          /\ req'.error # ConnectionFailed]_vars

----------------------------------------------------------------------------
(* Properties of the stored database configurations (SpecStorage) *)

\* C19: a get of the key of the stored databases that finds an entry returns
\* the list as it was when it was stored, whatever the callers have done since
\* with the list that they were given.
C19_GetReturnsValueAsStored ==
    LET g == CacheGet(caches, stats, "configuration", KeyStoredDatabases, now) IN
    g.hit => heap[g.ret] = stored

\* the operations that write the list of stored databases to the file
StorageWrites == {"add_database", "update_database", "delete_database", "api_databases_create"}

\* C36: after an operation that has written the list of stored databases to
\* the file, the next load_databases returns the list that was written, and
\* not an older list from the configuration cache.
C36_LoadReturnsWhatWasWritten ==
    [][(/\ steps' = steps + 1
        /\ loaded'.op = "load_databases"
        /\ loaded.op \in StorageWrites
        /\ loaded.ret)
       => heap'[loaded'.list] = storage_file]_vars

----------------------------------------------------------------------------
(* Properties of target-change invalidation (SpecDb) *)

\* the keys the requests build for database db
ScopedKeys(db) ==
    {KeyTables(db), KeyApiTables(db)} \cup {KeyTableInfo(tbl, db) : tbl \in TableNames}

\* this step is a request that connected to req'.target
ConnectStep == steps' = steps + 1 /\ req'.op = "connect" /\ req'.ok

\* C4: a successful connect to database T leaves, in database_queries,
\* api_responses and table_metadata, every entry scoped to a database U that is
\* neither T nor the previously connected one as it was: same value, same
\* timestamp.
C4_UnrelatedTargetsUntouched ==
    [][ConnectStep =>
        \A U \in DbNames \ {req'.target, req'.prev} :
            \A i \in DOMAIN InvalidatedNames :
                \A k \in ScopedKeys(U) :
                    LET ns == InvalidatedNames[i] IN
                    HasKey(caches[ns], k) =>
                        /\ HasKey(caches'[ns], k)
                        /\ DictGet(caches'[ns], k) = DictGet(caches[ns], k)]_vars

\* C9: after a successful connect that switches from database P to database N,
\* no entry keyed to P and no entry keyed to N is left in database_queries,
\* api_responses or table_metadata.
C9_NoEntryOfOldOrNewTarget ==
    (req.op = "connect" /\ req.ok /\ req.prev # NoDb /\ req.prev # req.target) =>
        \A i \in DOMAIN InvalidatedNames :
            \A db \in {req.prev, req.target} :
                \A k \in ScopedKeys(db) : ~HasKey(caches[InvalidatedNames[i]], k)

\* C10: the caches are invalidated by, and only by, a successful connect to a
\* database other than the one connected before, once per such connect, whichever
\* path called connect.
C10_InvalidatedOnlyOnTargetChange ==
    \A i \in DOMAIN req.log :
        LET a == req.log[i] IN
        a.invalidated = IF a.ok /\ a.target # a.prev THEN 1 ELSE 0

\* this step is a connect or save_config request whose connect attempt failed
FailedConnectStep ==
    /\ steps' = steps + 1
    /\ req'.op \in {"connect", "save_config"}
    /\ req'.log # <<>>
    /\ \A i \in DOMAIN req'.log : ~req'.log[i].ok

\* C11: a connect attempt that does not establish the new connection removes
\* no cache entry: every namespace holds after it what it held before.
C11_FailedConnectKeepsEntries ==
    [][FailedConnectStep => caches' = caches]_vars

\* a connect has just failed while entries of its target are cached
C11_Witness ==
    /\ req.op \in {"connect", "save_config"}
    /\ req.log # <<>>
    /\ \A i \in DOMAIN req.log : ~req.log[i].ok
    /\ \E i \in DOMAIN InvalidatedNames :
          \E k \in ScopedKeys(req.target) : HasKey(caches[InvalidatedNames[i]], k)

\* C32: every entry stored under a key scoped to database T holds a result
\* that was queried over a connection to T, after every sequence of requests.
C32_EntryHoldsDataOfItsDatabase ==
    \A T \in DbNames \cup {DbParen} :
        \A i \in DOMAIN InvalidatedNames :
            \A k \in ScopedKeys(T) :
                LET ns == InvalidatedNames[i] IN
                HasKey(caches[ns], k) => DictGet(caches[ns], k).data = DataFrom(T)

----------------------------------------------------------------------------
(* Properties of get_tables next to connect (SpecRace) *)

\* C31: once a connect to T has completed its invalidation, no entry keyed to
\* T holds data that was queried over the connection that connect replaced,
\* under every interleaving of get_tables with connect.
C31_NoResultOfReplacedConnection ==
    \A d \in race.done :
        d.old # 0 =>
            \A i \in DOMAIN InvalidatedNames :
                \A k \in ScopedKeys(d.target) :
                    LET ns == InvalidatedNames[i] IN
                    HasKey(caches[ns], k) => DictGet(caches[ns], k).data.conn # d.old

----------------------------------------------------------------------------
(* Properties of the filter compiler (SpecFilter) *)

\* the strings of a filter specification that are the client's to choose: the
\* strings of the condition values, and whatever stands where a logic
\* operator is expected other than the operators AND and OR themselves
ConditionValues(f) ==
    UNION {UNION {{c.value.parts[k] : k \in DOMAIN c.value.parts} :
                     c \in {g.conditions[j] : j \in DOMAIN g.conditions}} :
              g \in {f.groups[i] : i \in DOMAIN f.groups}}
LogicValues(f) ==
    ({f.logic} \cup {f.groups[i].logic : i \in DOMAIN f.groups}) \ {<<>>, <<"AND">>, <<"OR">>}
UserValues(f) == ConditionValues(f) \cup LogicValues(f)

\* u is a part of the text
Occurs(u, text) ==
    \E i \in 0..(Len(text) - Len(u)) : SubSeq(text, i + 1, i + Len(u)) = u

\* C3: the text _build_where_clause returns contains no string the client
\* supplied: every condition value is in the parameter list only, and the text
\* holds one placeholder per parameter.
C3_NoUserValueInText ==
    compiled =>
        /\ \A u \in UserValues(filters) : ~Occurs(u, where_clause)
        /\ Len(SelectSeq(where_clause, LAMBDA x : x = "%s")) = Len(params)

\* the text read as SQL reads it: the names of the quoted identifiers (a
\* doubled quote inside one is a quote of the name), the symbols outside
\* them, and whether the text ends inside one
RECURSIVE ScanIdentifiers(_, _, _)
ScanIdentifiers(text, inside, name) ==
    IF text = <<>> THEN [names |-> <<>>, outside |-> <<>>, open |-> inside]
    ELSE IF ~inside
         THEN IF Head(text) = "\""
              THEN ScanIdentifiers(Tail(text), TRUE, <<>>)
              ELSE LET r == ScanIdentifiers(Tail(text), FALSE, <<>>)
                   IN [r EXCEPT !.outside = <<Head(text)>> \o @]
         ELSE IF Head(text) # "\""
              THEN ScanIdentifiers(Tail(text), TRUE, Append(name, Head(text)))
              ELSE IF Len(text) >= 2 /\ text[2] = "\""
                   THEN ScanIdentifiers(Tail(Tail(text)), TRUE, Append(name, "\""))
                   ELSE LET r == ScanIdentifiers(Tail(text), FALSE, <<>>)
                        IN [r EXCEPT !.names = <<name>> \o @]

\* the conditions of a filter specification, and their field names
ConditionsOf(f) ==
    UNION {{g.conditions[j] : j \in DOMAIN g.conditions} :
              g \in {f.groups[i] : i \in DOMAIN f.groups}}
FieldsOf(f) == {c.field : c \in ConditionsOf(f)}

\* C21: in the text _build_where_clause returns, every field name stands as a
\* quoted identifier with its quotes doubled: the quoted identifiers of the
\* text are field names of the filter, each condition of the text starts with
\* one, and no symbol of a field name stands outside the quotes.
C21_FieldsAreQuotedIdentifiers ==
    compiled =>
        LET sc == ScanIdentifiers(where_clause, FALSE, <<>>) IN
        /\ ~sc.open
        /\ \A i \in DOMAIN sc.names : sc.names[i] \in FieldsOf(filters) \ {<<>>}
        /\ \A i \in DOMAIN sc.outside :
              \A field \in FieldsOf(filters) :
                  \A k \in DOMAIN field : sc.outside[i] # field[k]
        /\ where_clause # <<>> => sc.names # <<>>

\* a condition on the field f"g has been compiled
C21_Witness ==
    /\ compiled
    /\ \E i \in DOMAIN ScanIdentifiers(where_clause, FALSE, <<>>).names :
          ScanIdentifiers(where_clause, FALSE, <<>>).names[i] = <<"f", "\"", "g">>

\* the filter is one group of one condition, and that condition
SingleCondition(f) ==
    /\ f.kind = "dict" /\ "groups" \in f.keys /\ Len(f.groups) = 1
    /\ f.groups[1].kind = "dict" /\ Len(f.groups[1].conditions) = 1
    /\ f.groups[1].conditions[1].kind = "dict"
    /\ f.groups[1].conditions[1].keys = {"field", "operation", "value"}
TheCondition(f) == f.groups[1].conditions[1]

\* the table of the single-valued operations: what follows the field in the
\* text, %s being the placeholder of the database driver
RowText(operation) ==
    CASE operation = "equals" -> <<" = ", "%s">>
      [] operation = "not_equals" -> <<" != ", "%s">>
      [] operation = "greater_than" -> <<" > ", "%s">>
      [] operation = "less_than" -> <<" < ", "%s">>
      [] operation = "greater_equal" -> <<" >= ", "%s">>
      [] operation = "less_equal" -> <<" <= ", "%s">>
      [] operation \in {"contains", "starts_with", "ends_with"} -> <<"::text ILIKE ", "%s">>
      [] operation = "not_contains" -> <<"::text NOT ILIKE ", "%s">>
      [] operation = "is_null" -> <<" IS NULL">>
      [] operation = "is_not_null" -> <<" IS NOT NULL">>
      [] operation = "between" -> <<" BETWEEN ", "%s", " AND ", "%s">>
\* the table's parameters
RowParams(operation, value, ps) ==
    CASE operation \in {"equals", "not_equals", "greater_than", "less_than",
                        "greater_equal", "less_equal"} -> ps = <<value>>
      [] operation \in {"contains", "not_contains"} ->
            Len(ps) = 1 /\ (value.kind = "str" =>
                               ps[1] = StrValue(<<"%">> \o value.parts[1] \o <<"%">>))
      [] operation = "starts_with" ->
            Len(ps) = 1 /\ (value.kind = "str" =>
                               ps[1] = StrValue(value.parts[1] \o <<"%">>))
      [] operation = "ends_with" ->
            Len(ps) = 1 /\ (value.kind = "str" =>
                               ps[1] = StrValue(<<"%">> \o value.parts[1]))
      [] operation \in {"is_null", "is_not_null"} -> ps = <<>>
      [] operation = "between" ->
            \E i, j \in DOMAIN value.keys :
                /\ value.keys[i] = "min" /\ value.keys[j] = "max"
                /\ ps = <<StrValue(value.parts[i]), StrValue(value.parts[j])>>
SingleValued ==
    {"equals", "not_equals", "greater_than", "less_than", "greater_equal", "less_equal",
     "contains", "not_contains", "starts_with", "ends_with", "is_null", "is_not_null"}

\* C22: a filter of one condition with a single-valued operation, or with
\* between and a value that holds min and max, compiles to the row of the
\* table: the field as one quoted identifier, then the text of the row, and
\* the parameters of the row.
C22_ConditionIsTableRow ==
    (compiled /\ SingleCondition(filters)) =>
        LET c == TheCondition(filters)
            sc == ScanIdentifiers(where_clause, FALSE, <<>>)
        IN (\/ c.operation \in SingleValued
            \/ (c.operation = "between" /\ c.value.kind = "dict"
                   /\ {"min", "max"} \subseteq {c.value.keys[i] : i \in DOMAIN c.value.keys})) =>
               /\ sc.names = <<c.field>>
               /\ Head(where_clause) = "\""
               /\ sc.outside = RowText(c.operation)
               /\ RowParams(c.operation, c.value, params)

\* an ends_with condition on a string has been compiled
C22_Witness ==
    /\ compiled
    /\ SingleCondition(filters)
    /\ TheCondition(filters).operation = "ends_with"
    /\ TheCondition(filters).value = StrValue(<<"v">>)
    /\ params = <<StrValue(<<"%", "v">>)>>

\* the elements of a comma-joined string: an element starts at a symbol that
\* is neither a comma nor a space and has only spaces between it and the
\* comma before it (or the start), and ends at the last symbol before the
\* next comma (or the end) that is not a space
IsSeparator(x) == x \in {",", " "}
ElementStarts(s) ==
    {i \in DOMAIN s :
        /\ ~IsSeparator(s[i])
        /\ \A j \in 1..(i - 1) : (\A k \in j..(i - 1) : s[k] # ",") => s[j] = " "}
ElementEnd(s, i) ==
    CHOOSE e \in i..Len(s) :
        /\ \A k \in i..e : s[k] # ","
        /\ s[e] # " "
        /\ \A k \in (e + 1)..Len(s) : (\A m \in i..k : s[m] # ",") => s[k] = " "
ElementsOf(s) ==
    LET starts == ElementStarts(s)
        nth(n) == CHOOSE i \in starts : Cardinality({j \in starts : j < i}) = n - 1
    IN [n \in 1..Cardinality(starts) |-> SubSeq(s, nth(n), ElementEnd(s, nth(n)))]

\* the elements of the value of an in / not_in condition
ExpectedElements(value) ==
    IF value.kind = "str" THEN ElementsOf(value.parts[1]) ELSE value.parts

\* C23: a filter of one in or not_in condition whose value is a comma-joined
\* string or a list compiles to the field, IN or NOT IN, and a parenthesis of
\* one placeholder per element, separated by commas; the parameters are the
\* elements in order (of a string: the pieces between commas, trimmed, the
\* empty ones dropped); with no element the condition is dropped.
C23_InListElements ==
    (/\ compiled /\ SingleCondition(filters)
     /\ TheCondition(filters).operation \in {"in", "not_in"}
     /\ TheCondition(filters).value.kind \in {"str", "list"}) =>
        LET c == TheCondition(filters)
            es == ExpectedElements(c.value)
            sc == ScanIdentifiers(where_clause, FALSE, <<>>)
            word == IF c.operation = "in" THEN " IN (" ELSE " NOT IN ("
        IN IF es = <<>>
           THEN where_clause = <<>> /\ params = <<>>
           ELSE /\ sc.names = <<c.field>>
                /\ Head(where_clause) = "\""
                /\ Len(sc.outside) = 2 * Len(es) + 1
                /\ sc.outside[1] = word
                /\ sc.outside[Len(sc.outside)] = ")"
                /\ \A n \in 1..Len(es) : sc.outside[2 * n] = "%s"
                /\ \A n \in 1..(Len(es) - 1) : sc.outside[2 * n + 1] = ","
                /\ params = [n \in 1..Len(es) |-> StrValue(es[n])]

\* the string "v, w," has been compiled to two elements
C23_Witness ==
    /\ compiled
    /\ SingleCondition(filters)
    /\ TheCondition(filters).operation = "not_in"
    /\ TheCondition(filters).value = StrValue(<<"v", ",", " ", "w", ",">>)
    /\ params = <<StrValue(<<"v">>), StrValue(<<"w">>)>>

\* the logic operator of a group or of a specification, AND when omitted
LogicOf(d) == IF "logic" \in d.keys THEN d.logic ELSE <<"AND">>

\* up to two texts joined with an operator, in parentheses when asked for and
\* there are two
JoinedPair(texts, logic, wrap) ==
    CASE Len(texts) = 0 -> <<>>
      [] Len(texts) = 1 -> texts[1]
      [] Len(texts) = 2 ->
            LET joined == texts[1] \o <<" ">> \o logic \o <<" ">> \o texts[2]
            IN IF wrap THEN <<"(">> \o joined \o <<")">> ELSE joined

\* the clause of a group: its surviving conditions joined
ExpectedGroupClause(g) ==
    IF g.kind # "dict" THEN <<>>
    ELSE JoinedPair(GroupConditions(g.conditions).texts, LogicOf(g), TRUE)

\* C24: the text is the clauses of the groups that have a surviving
\* condition, joined with the top-level logic operator (AND when omitted); the
\* clause of a group is its surviving conditions joined with the group's
\* logic operator (AND when omitted), in parentheses if and only if more than
\* one survives.
C24_GroupsAreJoined ==
    (compiled /\ filters.kind = "dict" /\ "groups" \in filters.keys) =>
        LET clauses == [i \in DOMAIN filters.groups |->
                           ExpectedGroupClause(filters.groups[i])]
            kept == SelectSeq(clauses, LAMBDA x : x # <<>>)
        IN where_clause = JoinedPair(kept, LogicOf(filters), FALSE)

\* two groups have been compiled, the first of two surviving conditions
\* joined with OR, and joined to the second with the AND of an omitted logic
C24_Witness ==
    /\ compiled
    /\ filters.kind = "dict" /\ filters.keys = {"groups"}
    /\ Len(filters.groups) = 2
    /\ filters.groups[1].logic = <<"OR">>
    /\ Len(GroupConditions(filters.groups[1].conditions).texts) = 2
    /\ Len(GroupConditions(filters.groups[2].conditions).texts) = 1
    /\ Head(where_clause) = "("
    /\ Occurs(<<")", " ", "AND", " ", "\"">>, where_clause)

\* what one condition compiles to, NotBuilt when it is dropped
CompiledCondition(c) ==
    IF c.kind # "dict" \/ "field" \notin c.keys \/ "operation" \notin c.keys
           \/ c.field = <<>> \/ c.operation = ""
    THEN NotBuilt
    ELSE BuildCondition(c.field, c.operation,
                        IF "value" \in c.keys THEN c.value ELSE NullValue)

RECURSIVE Concat(_)
Concat(seqs) == IF seqs = <<>> THEN <<>> ELSE Head(seqs) \o Concat(Tail(seqs))

\* the surviving conditions of a specification in encounter order: group by
\* group, and condition by condition in the group
Survivors(f) ==
    Concat([i \in DOMAIN f.groups |->
               IF f.groups[i].kind # "dict" THEN <<>>
               ELSE SelectSeq([j \in DOMAIN f.groups[i].conditions |->
                                  CompiledCondition(f.groups[i].conditions[j])],
                              LAMBDA b : b.text # <<>>)])

\* the texts stand in s one after the other, in this order
RECURSIVE InOrder(_, _)
InOrder(texts, s) ==
    \/ texts = <<>>
    \/ \E k \in Len(Head(texts))..Len(s) :
          /\ SubSeq(s, k - Len(Head(texts)) + 1, k) = Head(texts)
          /\ InOrder(Tail(texts), SubSeq(s, k + 1, Len(s)))

PlaceholdersIn(text) == Len(SelectSeq(text, LAMBDA x : x = "%s"))

\* C25: the parameters are those of the surviving conditions, concatenated in
\* encounter order; the texts of the surviving conditions stand in the
\* predicate in the same order, each with one placeholder per parameter of
\* its own, and the predicate has no other placeholder: the i-th placeholder
\* from the left is the one of the i-th parameter.
C25_ParamsInEncounterOrder ==
    (compiled /\ filters.kind = "dict" /\ "groups" \in filters.keys) =>
        LET bs == Survivors(filters) IN
        /\ params = Concat([i \in DOMAIN bs |-> bs[i].params])
        /\ InOrder([i \in DOMAIN bs |-> bs[i].text], where_clause)
        /\ \A i \in DOMAIN bs : PlaceholdersIn(bs[i].text) = Len(bs[i].params)
        /\ PlaceholdersIn(where_clause) = Len(params)

\* C26: a filter specification that is absent, empty, or in which no
\* condition survives compiles to the empty text and the empty parameter
\* list, and get_table_data then queries without a WHERE.
C26_NothingToFilter ==
    (compiled /\ data_query # <<>>
        /\ (\/ filters.kind # "dict"
            \/ filters.keys = {}
            \/ Survivors(filters) = <<>>)) =>
        /\ where_clause = <<>>
        /\ params = <<>>
        /\ \A i \in DOMAIN data_query : data_query[i] # " WHERE "

\* a specification whose one condition has an operation outside the set has
\* been compiled
C26_Witness ==
    /\ compiled
    /\ SingleCondition(filters)
    /\ TheCondition(filters).operation = "regex"
    /\ where_clause = <<>>
    /\ data_query = <<"SELECT * FROM ", "{}", " LIMIT ", "%s", " OFFSET ", "%s">>

\* the operations of the fixed set
FixedOperations == SingleValued \cup {"in", "not_in", "between"}

\* a condition without field or operation, with an operation outside the
\* fixed set, or a between whose value does not hold min and max
Malformed(c) ==
    /\ c.kind = "dict"
    /\ \/ "field" \notin c.keys
       \/ "operation" \notin c.keys
       \/ c.operation \notin FixedOperations
       \/ /\ c.operation = "between"
          /\ ~(/\ "value" \in c.keys
               /\ c.value.kind = "dict"
               /\ {"min", "max"} \subseteq {c.value.keys[i] : i \in DOMAIN c.value.keys})

\* the specification without its malformed conditions
WithoutMalformed(f) ==
    [f EXCEPT !.groups =
        [i \in DOMAIN f.groups |->
            [f.groups[i] EXCEPT !.conditions = SelectSeq(@, LAMBDA c : ~Malformed(c))]]]

\* C27: the text and the parameters of a specification are those of the
\* specification without its malformed conditions (no field, no operation,
\* an operation outside the fixed set, a between without min and max); when
\* every condition is malformed both are empty.
C27_MalformedConditionsDropped ==
    (compiled /\ data_query # <<>>) =>
        LET b == BuildWhereClause(WithoutMalformed(filters)) IN
        /\ where_clause = b.text
        /\ params = b.params
        /\ (\A c \in ConditionsOf(filters) : Malformed(c)) =>
              where_clause = <<>> /\ params = <<>>

\* a group of a between without max and an equals has been compiled to the
\* equals alone
C27_Witness ==
    /\ compiled
    /\ filters.kind = "dict" /\ "groups" \in filters.keys
    /\ Len(filters.groups) = 1
    /\ Len(filters.groups[1].conditions) = 2
    /\ Malformed(filters.groups[1].conditions[1])
    /\ filters.groups[1].conditions[1].operation = "between"
    /\ filters.groups[1].conditions[2].operation = "equals"
    /\ where_clause = <<"\"", "f", "\"", " = ", "%s">>
    /\ params = <<StrValue(<<"v">>)>>

\* what the conditions of the table put into the text next to the field
\* names: operators, placeholders, and the list of an IN
ConditionSymbols ==
    UNION {{RowText(op)[i] : i \in DOMAIN RowText(op)} :
              op \in SingleValued \cup {"between"}}
    \cup {" IN (", " NOT IN (", "%s", ",", ")"}

\* C28: outside the quoted field names, the text holds nothing but what the
\* conditions of the table put there, the parentheses of the groups, and
\* between conditions and between groups the connectives AND and OR, each
\* with a space before and after it.
C28_ConnectivesAreAndOr ==
    compiled =>
        LET out == ScanIdentifiers(where_clause, FALSE, <<>>).outside IN
        \A i \in DOMAIN out :
            \/ out[i] \in ConditionSymbols \cup {"("}
            \/ /\ out[i] \in {"AND", "OR"}
               /\ i > 1 /\ out[i - 1] = " "
               /\ i < Len(out) /\ out[i + 1] = " "
            \/ /\ out[i] = " "
               /\ \/ (i > 1 /\ out[i - 1] \in {"AND", "OR"})
                  \/ (i < Len(out) /\ out[i + 1] \in {"AND", "OR"})

\* C34: for every filter specification, the compiled predicate text holds
\* as many placeholders as the returned parameter list has parameters.
C34_PlaceholdersMatchParams ==
    compiled => PlaceholdersIn(where_clause) = Len(params)

\* the symbol with which the text of a condition goes on after its field
ConditionHeads ==
    {" = ", " != ", "::text ILIKE ", "::text NOT ILIKE ", " > ", " < ", " >= ", " <= ",
     " IS NULL", " IS NOT NULL", " IN (", " NOT IN (", " BETWEEN "}

\* the text outside the quoted identifiers as a boolean expression: one
\* "atom" per condition, the connectives and the parentheses of the groups.
\* The parenthesis that ends an IN list and the AND of a BETWEEN belong to
\* their condition.
RECURSIVE Tokens(_, _)
Tokens(out, inlist) ==
    IF out = <<>> THEN <<>>
    ELSE LET x == Head(out) IN
         IF x \in {" IN (", " NOT IN ("} THEN <<"atom">> \o Tokens(Tail(out), TRUE)
         ELSE IF x \in ConditionHeads THEN <<"atom">> \o Tokens(Tail(out), inlist)
         ELSE IF x = ")" /\ inlist THEN Tokens(Tail(out), FALSE)
         ELSE IF x \in {"(", ")", "AND", "OR"} THEN <<x>> \o Tokens(Tail(out), inlist)
         ELSE Tokens(Tail(out), inlist)

\* the value of the expression under the usual precedence, the k-th atom
\* having the value truth[k]: parentheses first, then AND, then OR
RECURSIVE ParseOr(_, _, _)
RECURSIVE ParseAnd(_, _, _)
RECURSIVE ParseFactor(_, _, _)
ParseFactor(toks, k, truth) ==
    IF toks = <<>> THEN [val |-> FALSE, rest |-> <<"end">>, k |-> k]
    ELSE IF Head(toks) = "("
    THEN LET r == ParseOr(Tail(toks), k, truth) IN
         IF r.rest # <<>> /\ Head(r.rest) = ")"
         THEN [val |-> r.val, rest |-> Tail(r.rest), k |-> r.k]
         ELSE [val |-> FALSE, rest |-> <<"end">>, k |-> r.k]
    ELSE IF Head(toks) = "atom" /\ k \in DOMAIN truth
    THEN [val |-> truth[k], rest |-> Tail(toks), k |-> k + 1]
    ELSE [val |-> FALSE, rest |-> <<"end">>, k |-> k]
ParseAnd(toks, k, truth) ==
    LET f == ParseFactor(toks, k, truth) IN
    IF f.rest # <<>> /\ Head(f.rest) = "AND"
    THEN LET r == ParseAnd(Tail(f.rest), f.k, truth) IN [r EXCEPT !.val = f.val /\ @]
    ELSE f
ParseOr(toks, k, truth) ==
    LET t == ParseAnd(toks, k, truth) IN
    IF t.rest # <<>> /\ Head(t.rest) = "OR"
    THEN LET r == ParseOr(Tail(t.rest), t.k, truth) IN [r EXCEPT !.val = t.val \/ @]
    ELSE t

\* values combined by a logic: OR, or AND (which is also the default)
Combined(logic, vals) ==
    IF logic = <<"OR">> THEN \E i \in DOMAIN vals : vals[i]
    ELSE \A i \in DOMAIN vals : vals[i]

\* the number of conditions of a group that the compiler keeps
SurvivorsIn(group) ==
    IF group.kind # "dict" THEN 0
    ELSE Len(SelectSeq([j \in DOMAIN group.conditions |->
                           CompiledCondition(group.conditions[j])],
                       LAMBDA b : b.text # <<>>))

\* the values of the groups that have a surviving condition, the conditions
\* being numbered from k on in encounter order
RECURSIVE GroupResults(_, _, _)
GroupResults(groups, k, truth) ==
    IF groups = <<>> THEN <<>>
    ELSE LET n == SurvivorsIn(Head(groups)) IN
         IF n = 0 THEN GroupResults(Tail(groups), k, truth)
         ELSE <<Combined(DictGetOr(Head(groups), "logic", <<"AND">>),
                         [i \in 1..n |-> truth[k + i - 1]])>>
              \o GroupResults(Tail(groups), k + n, truth)

\* the nested evaluation of a filter specification
NestedValue(f, truth) ==
    Combined(DictGetOr(f, "logic", <<"AND">>), GroupResults(f.groups, 1, truth))

\* C35: for a specification whose logics are AND or OR (or absent), the
\* compiled text read with the usual precedence has, under every assignment
\* of truth values to the surviving conditions, the value of the nested
\* evaluation: each group's conditions combined by the group's logic, the
\* groups combined by the top-level logic.
C35_TextMeansNestedEvaluation ==
    (compiled /\ where_clause # <<>> /\ LogicValues(filters) = {}) =>
        LET n == Len(Survivors(filters))
            toks == Tokens(ScanIdentifiers(where_clause, FALSE, <<>>).outside, FALSE)
        IN \A truth \in [1..n -> BOOLEAN] :
              LET r == ParseOr(toks, 1, truth) IN
              /\ r.rest = <<>>
              /\ r.k = n + 1
              /\ r.val = NestedValue(filters, truth)

\* a text in which the parentheses decide: two conditions under OR in the
\* first group, a second group, AND between the groups
C35_Witness ==
    /\ compiled /\ where_clause # <<>> /\ LogicValues(filters) = {}
    /\ Len(filters.groups) = 2
    /\ SurvivorsIn(filters.groups[1]) = 2
    /\ SurvivorsIn(filters.groups[2]) >= 1
    /\ DictGetOr(filters.groups[1], "logic", <<"AND">>) = <<"OR">>
    /\ DictGetOr(filters, "logic", <<"AND">>) = <<"AND">>
    /\ Head(where_clause) = "("

----------------------------------------------------------------------------
(* Properties of the cache keys (SpecKeys) *)

\* C29: a request that differs from another only in the order in which its
\* dictionary keys, its conditions or its table names are written gets the
\* same cache keys.
C29_KeysAreCanonical ==
    (key_result.built /\ key_request \in KeyRequests) =>
        key_result.request = key_result.reference

----------------------------------------------------------------------------
(* Properties of the cache under several threads (SpecThreads) *)

\* thread t is inside `with self._locks[cache_name]`
InLock(t) == thread[t].pc \notin {"idle", "acquire"}

\* what the call of thread t does when nothing runs between its statements:
\* the method applied to the namespace as the thread found it
InOnePiece(t) ==
    LET th == thread[t]
        ns == th.ns
        c == [caches EXCEPT ![ns] = th.entries]
        s == [f \in StatNames |-> [stats[f] EXCEPT ![ns] = th.counts[f]]]
        result(cs, ss, ret, n) ==
            [entries |-> cs[ns], counts |-> [f \in StatNames |-> ss[f][ns]],
             ret |-> ret, n |-> n]
    IN CASE th.op = "get" ->
               LET r == CacheGet(c, s, ns, th.key, th.at) IN result(r.caches, r.stats, r.ret, 0)
         [] th.op = "set" ->
               LET r == CacheSet(c, s, ns, th.key, th.val, th.at)
               IN result(r.caches, r.stats, IF r.ret THEN "True" ELSE "False", 0)
         [] th.op = "delete" ->
               LET r == CacheDelete(c, ns, th.key)
               IN result(r.caches, s, IF r.ret THEN "True" ELSE "False", 0)
         [] th.op = "clear" -> result(CacheClear(c, ns), s, None, 0)
         [] OTHER ->
               LET r == InvalidatePattern(c, ns, th.key) IN result(r.caches, s, None, r.ret)

\* C7: whatever the interleaving of the threads' get, set, delete,
\* invalidate_pattern and clear calls, a thread inside a call holds the lock of
\* the call's namespace, so no two threads are inside calls on one namespace;
\* when a call is about to return, the namespace, its counters and the result
\* are those of the call run in one piece on the namespace as the thread found
\* it; and the number of entries of every namespace is the number of its keys.
C7_CallsAreAtomic ==
    /\ \A t \in Threads : InLock(t) => lock[thread[t].ns] = t
    /\ \A t \in Threads, u \in Threads :
          (t # u /\ InLock(t) /\ InLock(u)) => thread[t].ns # thread[u].ns
    /\ \A t \in Threads :
          (/\ thread[t].pc = "release"
           /\ thread[t].op \in {"get", "set", "delete", "clear", "invalidate_pattern"}) =>
              LET r == InOnePiece(t) IN
              /\ caches[thread[t].ns] = r.entries
              /\ \A f \in StatNames : stats[f][thread[t].ns] = r.counts[f]
              /\ thread[t].ret = r.ret
              /\ thread[t].n = r.n
    /\ \A ns \in CacheNames : Len(caches[ns]) = Cardinality(KeysOf(caches[ns]))

\* a set that evicted is about to return while the other thread waits for the
\* lock of the same namespace
C7_Witness ==
    \E t \in Threads, u \in Threads :
        /\ t # u
        /\ thread[t].pc = "release" /\ thread[t].op = "set"
        /\ thread[t].entries # <<>> /\ thread[t].oldest_key # <<>>
        /\ thread[u].pc = "acquire" /\ thread[u].ns = thread[t].ns

\* a thread that is inside a call can take a step
ThreadStep ==
    \E t \in Threads :
        \/ Acquire(t) \/ Release(t)
        \/ GetStatement(t) \/ SetStatement(t) \/ DeleteStatement(t)
        \/ ClearStatement(t) \/ InvalidateStatement(t) \/ CleanupStatement(t)

\* C16: no thread ever holds the locks of two namespaces: clear() and
\* cleanup_expired() hold a namespace's lock only while they work on that
\* namespace.  A thread that waits for a lock waits for a thread that is at
\* work on the same namespace and is not itself waiting, and while any call is
\* in progress some thread can take a step: there is no deadlock.
C16_OneLockAtATime ==
    /\ \A t \in Threads : Cardinality({ns \in CacheNames : lock[ns] = t}) <= 1
    /\ \A t \in Threads :
          (thread[t].pc = "acquire" /\ lock[thread[t].ns] # Unlocked) =>
              \E u \in Threads \ {t} :
                  /\ lock[thread[t].ns] = u
                  /\ InLock(u)
                  /\ thread[u].ns = thread[t].ns
    /\ (\E t \in Threads : thread[t].pc # "idle") => ENABLED ThreadStep

\* cleanup_expired is at work on its second or third namespace while the
\* other thread is at work on another namespace
C16_Witness ==
    \E t \in Threads, u \in Threads :
        /\ t # u
        /\ thread[t].op = "cleanup_expired" /\ InLock(t)
        /\ thread[t].ns # CacheOrder[1]
        /\ InLock(u)
        /\ thread[u].ns # thread[t].ns

\* C33: every result of get_stats has, for each namespace, hits + misses =
\* total_requests and current_size <= max_size, also when get and set calls
\* of other threads run at the same time.
C33_StatsResultIsConsistent ==
    \A t \in Threads :
        \A i \in DOMAIN thread[t].result :
            LET e == thread[t].result[i] IN
            /\ e.hits + e.misses = e.total_requests
            /\ e.current_size <= e.max_size

----------------------------------------------------------------------------
(* Properties of the background sweep (SpecSweep) *)

\* C15: once a shutdown is asked for, the sweep loop eventually stops.
C15_SweepStopsAfterShutdown == shutdown ~> (sweep = "stopped")

====
